---- MODULE Spec2Model ----
(***************************************************************************)
(* A model of the sandbox control-plane agent (sandbox-api):               *)
(*   - the process supervisor   (handler/process/process.go)               *)
(*   - the multipart upload manager                                        *)
(*   - the port monitor                                                    *)
(*   - the WebSocket connection handler (handler/websocket.go)             *)
(* Each subsystem has its own specification over the shared variables; a   *)
(* specification leaves the other subsystems' variables unchanged.         *)
(***************************************************************************)
EXTENDS Integers, Sequences, FiniteSets, TLC

(***************************************************************************)
(* Bounds of the model.                                                    *)
(***************************************************************************)
MaxPid == 2         \* OS pids are 1..MaxPid
MaxSpawns == 2      \* StartProcessWithName calls that succeed
MaxChunks == 2      \* chunks a record's children write to their pipes
MaxSinks == 1       \* log sinks handed to StreamProcessOutput
MaxCalls == 1       \* Stop/Kill calls a caller makes
MaxKeepalives == 1  \* keepalive messages a stream's goroutine writes
MaxNetPids == 1     \* pids handed to the port monitor are 1..MaxNetPids
MaxPorts == 2       \* local ports are 1..MaxPorts
MaxRegs == 2        \* RegisterPortOpenCallback calls
MaxSessions == 1    \* InitiateUpload calls that succeed
MaxPartNo == 2      \* part numbers handed to UploadPart are 0..MaxPartNo
MaxConcPartNo == 1  \* the same, for clients that run concurrently
MaxStreams == 2     \* log streams started on a connection
MaxMsgIds == 1      \* request ids of the stream messages are 1..MaxMsgIds
MaxTimeout == 1     \* timeouts handed to ExecuteProcess are 0..MaxTimeout seconds
MaxDepth == 2       \* directories are created at most MaxDepth levels under the root
MaxStops == 2       \* the stop function of a subscription is called at most MaxStops times
MaxSegs == 3        \* the paths handed to GetAbsolutePath have at most MaxSegs elements

\* Program constant: the ceiling of max-restarts (process.go:164).
MaxRestartsLimit == 25

None == 0
Pids == 1..MaxPid
Names == {"a"}
\* <<restartOnFailure, maxRestarts>> as callers pass them (the handlers pass
\* the request's integer on unchecked)
SpawnInputs == {<<FALSE, 26>>, <<TRUE, -1>>, <<TRUE, 1>>}
Callers == {"c1"}
Sinks == 1..MaxSinks
Ports == 1..MaxPorts
NetPids == 1..MaxNetPids
NetCallers == {"n1"}
UpCallers == {"u1", "u2"}
\* The handlers of an execute request: POST /process and the WebSocket
\* message process:execute.
Handlers == {"rest", "ws"}
\* The goroutines of a WebSocket connection: the read loop, the pinger, a
\* reader goroutine of the streamed process, and per stream the
\* streamProcessLogs goroutine and the keepalive goroutine of its attach.
StreamIds == 1..MaxStreams
MsgIds == 1..MaxMsgIds
NoG == <<"none", 0>>
ReadG == <<"read", 0>>
PingG == <<"ping", 0>>
ProdG == <<"prod", 0>>
StreamG(i) == <<"stream", i>>
KeepG(i) == <<"keep", i>>
WsGs == {ReadG, PingG, ProdG} \cup {StreamG(i) : i \in StreamIds} \cup {KeepG(i) : i \in StreamIds}
Sessions == 1..MaxSessions
PartNos == 1..MaxPartNo
\* The bodies of the UploadPart requests, as byte strings.
Data == {<<"A">>, <<"B", "B">>}
\* Permission bits: 0644 and 0666 as requested, 0600 on a file made by others.
Perm644 == {"ur", "uw", "gr", "or"}
Perm666 == {"ur", "uw", "gr", "gw", "or", "ow"}
Perm600 == {"ur", "uw"}

StatusRunning == "running"
StatusCompleted == "completed"
StatusFailed == "failed"
StatusStopped == "stopped"
StatusKilled == "killed"
Terminal == {StatusCompleted, StatusFailed, StatusStopped, StatusKilled}

VARIABLES
    \* ---- process supervisor ----
    processes,   \* pm.processes: agent-PID -> record (None: no entry)
    recs,        \* the ProcessInfo objects, in creation order
    ostab,       \* the OS process table: pid -> [st, sig, out]
    wait,        \* per record: the goroutine awaiting its current child
    calls,       \* per caller: the Stop/Kill call in flight
    cbs,         \* per record: the statuses the completion callback saw
    clock,       \* time.Now(), advanced by each start of a child
    runs,        \* per record: children started so far
    ctl,         \* per record: [armed, last] of the Stop/Kill calls that returned nil
    \* ---- output capture and log fan-out ----
    stdout, stderr, logs,   \* per record: the three buffers (sequences of chunks)
    logWriters,  \* per record: the attached sinks, in order
    sinkData,    \* per sink: what was written to it
    streams,     \* per sink: the StreamProcessOutput call that attaches it
    nchunks,     \* per record: chunks its children wrote so far
    \* ---- multipart upload manager ----
    uploads,     \* m.uploads: the session ids the index holds
    sess,        \* the MultipartUpload objects, by session id
    disk,        \* <uploads-root>/<id>/: the directory, its part files and metadata.json
    target,      \* the target paths: the file there, if any
    mmu,         \* m.mu: the caller holding the manager's lock
    umu,         \* upload.mu of each session: [w, r] the writer and the readers
    ucalls,      \* per caller: the upload call in flight
    gone,        \* per session: an Abort or a Complete of it returned nil
    rejected,    \* per session: the last call for it was a Complete that failed validation
    \* ---- port monitor ----
    portsByPID, callbacks, monitoredPIDs, isMonitoring,
    osPorts,     \* the ports each pid really listens on
    prevScan,    \* per pid: the result of the last scan for it
    fired,       \* the callbacks the last tick started: <<pid, callback, port>>
    ticked,      \* the last tick: per pid scanned, [old, new]
    nregs,       \* callbacks registered so far
    nmu,         \* n.mutex: [w, r] the writer and the readers holding it
    mon,         \* the startMonitoring goroutines, in order of start: their positions
    ncalls,      \* per caller: the scanner call in flight
    \* ---- WebSocket connection ----
    wsMu,        \* connWriteMu: the goroutine holding it
    wsG,         \* per goroutine of the connection: its position
    wsInWrite,   \* the write calls on the socket in progress: <<goroutine, frame kind>>
    wsSent,      \* per stream goroutine: the stream-control frames it has written, in order
    activeStreams, \* request id -> the stream registered under it (None: no entry)
    wsCancel,    \* per stream: its cancel channel, "unmade", "open" or "closed"
    wsDone,      \* the connection's done channel is closed
    wsAttached,  \* the streams whose log writer is attached to the process
    \* ---- ExecuteProcess ----
    exec,        \* the ExecuteProcess call: its position, inputs and result
    \* ---- directory watch ----
    watch,       \* the subscription: mode, watcher, stop channel, goroutine
    wfs,         \* the directories, the watched ones, the event queue, the sink
    \* ---- path resolution ----
    resolved,    \* the last GetAbsolutePath call: its input and what it returned
    \* ---- history of the uploads ----
    okparts,     \* per session and part number: the bytes of the last two
                 \* UploadPart calls that returned without error, oldest first
    \* ---- execute requests ----
    handlers     \* per request handler: its position, the name it was given, its answer

procVars == <<processes, recs, ostab, wait, calls, cbs, clock, runs, ctl>>
logVars == <<stdout, stderr, logs, logWriters, sinkData, streams, nchunks>>
\* The variables of the other subsystems, which the supervisor leaves alone.
upVars == <<uploads, sess, disk, target, mmu, umu, ucalls, gone, rejected>>
netVars == <<portsByPID, callbacks, monitoredPIDs, isMonitoring, osPorts, prevScan, fired, ticked, nregs, nmu, mon, ncalls>>
wsVars == <<wsMu, wsG, wsInWrite, wsSent, activeStreams, wsCancel, wsDone, wsAttached>>
execVars == <<exec>>
watchVars == <<watch, wfs>>
pathVars == <<resolved>>
histVars == <<okparts>>
reqVars == <<handlers>>
outsideSpawn == <<upVars, netVars, wsVars, execVars, watchVars, pathVars, histVars>>
outsideProc == <<outsideSpawn, reqVars>>
outsideNet == <<procVars, logVars, upVars, wsVars, execVars, watchVars, pathVars, histVars, reqVars>>
outsideUpHist == <<procVars, logVars, netVars, wsVars, execVars, watchVars, pathVars, reqVars>>
outsideUp == <<outsideUpHist, histVars>>
outsideWS == <<procVars, logVars, upVars, netVars, execVars, watchVars, pathVars, histVars, reqVars>>
outsideExec == <<upVars, netVars, wsVars, watchVars, pathVars, histVars, reqVars>>
outsideWatch == <<procVars, logVars, upVars, netVars, wsVars, execVars, pathVars, histVars, reqVars>>
outsidePath == <<procVars, logVars, upVars, netVars, wsVars, execVars, watchVars, histVars, reqVars>>
vars == <<procVars, logVars, upVars, netVars, wsVars, execVars, watchVars, pathVars, histVars, reqVars>>

RecIds == 1..Len(recs)

(***************************************************************************)
(* The OS process table.                                                   *)
(***************************************************************************)
FreeProc == [st |-> "free", sig |-> "none", out |-> "none"]
RunProc == [st |-> "run", sig |-> "none", out |-> "none"]

\* How a child can end, given the signal it was sent: a SIGKILLed child dies
\* by the signal; a SIGTERMed child dies by it or handles it and exits.
ExitOutcomes(sig) ==
    CASE sig = "kill" -> {"sig"}
      [] sig = "term" -> {"ok", "fail", "sig"}
      [] OTHER -> {"ok", "fail"}

\* exec.ExitError.ExitCode(): the exit status, -1 for a signalled child.
ExitCodeOf(out) == IF out = "sig" THEN -1 ELSE 1

\* The child exits (or dies); it stays a zombie until Wait reaps it.
ChildExit(p, out) ==
    /\ ostab[p].st = "run"
    /\ out \in ExitOutcomes(ostab[p].sig)
    /\ ostab' = [ostab EXCEPT ![p] = [st |-> "zombie", sig |-> @.sig, out |-> out]]
    /\ UNCHANGED <<processes, recs, wait, calls, cbs, clock, runs, ctl, logVars, outsideProc>>

(***************************************************************************)
(* StartProcessWithName.                                                   *)
(***************************************************************************)
\* "Ensure maxRestarts doesn't exceed the limit"
ClampMaxRestarts(mr) == IF mr > MaxRestartsLimit THEN MaxRestartsLimit ELSE mr

NewProcessInfo(pid, name, rof, mr, now) ==
    [PID |-> pid, Name |-> name, ProcessPid |-> pid, StartedAt |-> now,
     CompletedAt |-> None, ExitCode |-> 0, Status |-> StatusRunning,
     RestartOnFailure |-> rof, MaxRestarts |-> ClampMaxRestarts(mr),
     RestartCount |-> 0]

\* A pid's entry of n.portsByPID: has is FALSE while the map has no entry.
NoPortMap == [has |-> FALSE, ports |-> {}]
PortMap(ps) == [has |-> TRUE, ports |-> ps]
NoTick == [ok |-> FALSE, hadPrev |-> FALSE, prev |-> {}, new |-> {}, cbs |-> <<>>]
Unlocked == [w |-> "none", r |-> {}]
IdleNetCall == [pc |-> "idle", pid |-> None, scan |-> {}, res |-> "none"]
\* A file: ex is FALSE while no file is at the path.
NoFile == [ex |-> FALSE, bytes |-> <<>>, mode |-> {}]
File(b, m) == [ex |-> TRUE, bytes |-> b, mode |-> m]
NoPart == [has |-> FALSE, ETag |-> "", Size |-> 0]
NoMeta == [ex |-> FALSE, parts |-> [n \in PartNos |-> NoPart]]
\* A call's locals; pre is the file at the target path when CompleteUpload
\* opens it.
IdleUpCall == [pc |-> "idle", op |-> "none", id |-> None, n |-> 0, d |-> <<>>,
               list |-> <<>>, k |-> 0, orphan |-> FALSE, pre |-> NoFile,
               snap |-> [n \in PartNos |-> NoPart], res |-> "none"]
\* A goroutine of the connection at pc; Writing: about to write a frame of
\* the kind under connWriteMu and go on at next.
WsAt(pc) == [pc |-> pc, kind |-> "none", next |-> "none", err |-> FALSE]
Writing(kind, next) == [pc |-> "lock", kind |-> kind, next |-> next, err |-> FALSE]
\* The goroutine awaiting child p of a record whose earlier children ended
\* as outs tells.
WaitFor(p, outs) == [pc |-> "wait", pid |-> p, out |-> "none", st |-> "none", outs |-> outs]
IdleCall == [pc |-> "idle", op |-> "none", rec |-> None, run |-> FALSE, res |-> "none", n |-> 0]
IdleStream == [pc |-> "idle", rec |-> None, id |-> <<"none", 0>>, hist |-> 0, ka |-> "none", kn |-> 0]

\* cmd.Start succeeds with OS pid p; the record is stored under its decimal
\* pid and the two readers and the wait goroutine are started.
StartProcessWithName(name, rof, mr) ==
    /\ \E p \in Pids :
        /\ ostab[p].st = "free"
        /\ ostab' = [ostab EXCEPT ![p] = RunProc]
        /\ recs' = Append(recs, NewProcessInfo(p, name, rof, mr, clock + 1))
        /\ processes' = [processes EXCEPT ![p] = Len(recs) + 1]
        /\ wait' = Append(wait, WaitFor(p, <<>>))
    /\ clock' = clock + 1
    /\ cbs' = Append(cbs, <<>>)
    /\ runs' = Append(runs, 1)
    /\ ctl' = Append(ctl, [armed |-> FALSE, last |-> "none"])
    /\ stdout' = Append(stdout, <<>>)
    /\ stderr' = Append(stderr, <<>>)
    /\ logs' = Append(logs, <<>>)
    /\ logWriters' = Append(logWriters, <<>>)
    /\ nchunks' = Append(nchunks, 0)
    /\ UNCHANGED <<calls, sinkData, streams, outsideSpawn>>

(***************************************************************************)
(* The wait goroutine (process.go:253-335, and 464-546 for a restarted     *)
(* child), one step per shared read or write.                              *)
(***************************************************************************)
\* Every sink in ws is written chunk ch with the given prefix.
WriteAll(sd, ws, prefix, ch) ==
    [s \in Sinks |->
        IF \E i \in 1..Len(ws) : ws[i] = s
        THEN sd[s] \o [i \in 1..Cardinality({j \in 1..Len(ws) : ws[j] = s}) |-> <<prefix, ch>>]
        ELSE sd[s]]

\* cmd.Wait returns: the child is reaped, its pid is free again, and the
\* completion time is set.
WaitReturn(r) ==
    /\ wait[r].pc = "wait"
    /\ ostab[wait[r].pid].st = "zombie"
    /\ ostab' = [ostab EXCEPT ![wait[r].pid] = FreeProc]
    /\ recs' = [recs EXCEPT ![r].CompletedAt = clock]
    /\ wait' = [wait EXCEPT ![r].out = ostab[wait[r].pid].out,
                            ![r].outs = Append(@, ostab[wait[r].pid].out),
                            ![r].pc = IF ostab[wait[r].pid].out = "ok"
                                      THEN "setStatus" ELSE "readStatus"]
    /\ UNCHANGED <<processes, calls, cbs, clock, runs, ctl, logVars, outsideProc>>

\* err != nil: the test "Status != stopped && Status != killed" reads Status.
WaitReadStatus(r) ==
    /\ wait[r].pc = "readStatus"
    /\ wait' = [wait EXCEPT ![r].st = recs[r].Status, ![r].pc = "setStatus"]
    /\ UNCHANGED <<processes, recs, ostab, calls, cbs, clock, runs, ctl, logVars, outsideProc>>

\* ExitStatus without the branch for a nil error of cmd.Wait.
ExitStatusNeverCompleted(w, old) ==
    IF w.st \notin {StatusStopped, StatusKilled} THEN StatusFailed ELSE old

\* The status the wait goroutine writes: w is its local state, old the
\* record's status.
ExitStatus(w, old) ==
    IF w.out = "ok" THEN StatusCompleted
    ELSE IF w.st \notin {StatusStopped, StatusKilled} THEN StatusFailed
    ELSE old

WaitSetStatus(r) ==
    /\ wait[r].pc = "setStatus"
    /\ recs' = [recs EXCEPT
                  ![r].Status = ExitStatus(wait[r], @),
                  ![r].ExitCode = IF wait[r].out = "ok" THEN 0 ELSE ExitCodeOf(wait[r].out)]
    /\ wait' = [wait EXCEPT ![r].pc = "store"]
    /\ UNCHANGED <<processes, ostab, calls, cbs, clock, runs, ctl, logVars, outsideProc>>

\* "Update process in memory": pm.processes[process.PID] = process
WaitStore(r) ==
    /\ wait[r].pc = "store"
    /\ processes' = [processes EXCEPT ![recs[r].PID] = r]
    /\ wait' = [wait EXCEPT ![r].pc = "check"]
    /\ UNCHANGED <<recs, ostab, calls, cbs, clock, runs, ctl, logVars, outsideProc>>

\* ShouldRestart with the restart count compared by <= instead of <.
ShouldRestartOnceMore(rec) ==
    /\ rec.Status = StatusFailed
    /\ rec.RestartOnFailure
    /\ rec.RestartCount <= rec.MaxRestarts

\* "Check if we should restart on failure"
ShouldRestart(rec) ==
    /\ rec.Status = StatusFailed
    /\ rec.RestartOnFailure
    /\ rec.RestartCount < rec.MaxRestarts

WaitCheck(r) ==
    /\ wait[r].pc = "check"
    /\ wait' = [wait EXCEPT ![r].pc = IF ShouldRestart(recs[r]) THEN "notice" ELSE "cleanup"]
    /\ UNCHANGED <<processes, recs, ostab, calls, cbs, clock, runs, ctl, logVars, outsideProc>>

\* The restart notice is written to the stdout and combined buffers.
WaitNotice(r) ==
    /\ wait[r].pc = "notice"
    /\ stdout' = [stdout EXCEPT ![r] = Append(@, <<"restart", recs[r].RestartCount + 1>>)]
    /\ logs' = [logs EXCEPT ![r] = Append(@, <<"restart", recs[r].RestartCount + 1>>)]
    /\ wait' = [wait EXCEPT ![r].pc = "notify"]
    /\ UNCHANGED <<processes, recs, ostab, calls, cbs, clock, runs, ctl,
                   stderr, logWriters, sinkData, streams, nchunks, outsideProc>>

\* "Notify log writers about the restart", under the writer-set read lock.
WaitNotify(r) ==
    /\ wait[r].pc = "notify"
    /\ sinkData' = WriteAll(sinkData, logWriters[r], "", <<"restart", recs[r].RestartCount + 1>>)
    /\ wait' = [wait EXCEPT ![r].pc = "inc"]
    /\ UNCHANGED <<processes, recs, ostab, calls, cbs, clock, runs, ctl,
                   stdout, stderr, logs, logWriters, streams, nchunks, outsideProc>>

\* WaitIncrement with the completion callback also called for the failure
\* that is about to be retried.
WaitIncrementCallsBack(r) ==
    /\ wait[r].pc = "inc"
    /\ recs' = [recs EXCEPT ![r].RestartCount = @ + 1]
    /\ cbs' = [cbs EXCEPT ![r] = Append(@, recs[r].Status)]
    /\ wait' = [wait EXCEPT ![r].pc = "respawn"]
    /\ UNCHANGED <<processes, ostab, calls, clock, runs, ctl, logVars, outsideProc>>

\* process.RestartCount++, then the one-second sleep.
WaitIncrement(r) ==
    /\ wait[r].pc = "inc"
    /\ recs' = [recs EXCEPT ![r].RestartCount = @ + 1]
    /\ wait' = [wait EXCEPT ![r].pc = "respawn"]
    /\ UNCHANGED <<processes, ostab, calls, cbs, clock, runs, ctl, logVars, outsideProc>>

\* restartProcess, a pipe cannot be created: it returns before touching the record.
RestartPipeFail(r) ==
    /\ wait[r].pc = "respawn"
    /\ wait' = [wait EXCEPT ![r].pc = "restartErr"]
    /\ UNCHANGED <<processes, recs, ostab, calls, cbs, clock, runs, ctl, logVars, outsideProc>>

\* restartProcess: "Keep the existing process info but reset status"
RestartReset(r) ==
    /\ wait[r].pc = "respawn"
    /\ clock' = clock + 1
    /\ recs' = [recs EXCEPT ![r].Status = StatusRunning, ![r].StartedAt = clock + 1,
                            ![r].CompletedAt = None, ![r].ExitCode = 0]
    /\ wait' = [wait EXCEPT ![r].pc = "start"]
    /\ UNCHANGED <<processes, ostab, calls, cbs, runs, ctl, logVars, outsideProc>>

\* restartProcess: cmd.Start succeeds with OS pid p; only ProcessPid changes,
\* the record is stored again under its agent-PID, and new readers and a new
\* wait goroutine take over.
RestartStart(r) ==
    /\ wait[r].pc = "start"
    /\ \E p \in Pids :
        /\ ostab[p].st = "free"
        /\ ostab' = [ostab EXCEPT ![p] = RunProc]
        /\ recs' = [recs EXCEPT ![r].ProcessPid = p]
        /\ wait' = [wait EXCEPT ![r] = WaitFor(p, @.outs)]
    /\ processes' = [processes EXCEPT ![recs[r].PID] = r]
    /\ runs' = [runs EXCEPT ![r] = @ + 1]
    /\ UNCHANGED <<calls, cbs, clock, ctl, logVars, outsideProc>>

\* restartProcess: cmd.Start fails after the record was reset.
RestartStartFail(r) ==
    /\ wait[r].pc = "start"
    /\ wait' = [wait EXCEPT ![r].pc = "restartErr"]
    /\ UNCHANGED <<processes, recs, ostab, calls, cbs, clock, runs, ctl, logVars, outsideProc>>

\* restartErr != nil: the error notice goes to the buffers, the writer set is
\* cleared and the callback is called.
WaitRestartErr(r) ==
    /\ wait[r].pc = "restartErr"
    /\ stdout' = [stdout EXCEPT ![r] = Append(@, <<"restartfail", recs[r].RestartCount>>)]
    /\ logs' = [logs EXCEPT ![r] = Append(@, <<"restartfail", recs[r].RestartCount>>)]
    /\ logWriters' = [logWriters EXCEPT ![r] = <<>>]
    /\ cbs' = [cbs EXCEPT ![r] = Append(@, recs[r].Status)]
    /\ wait' = [wait EXCEPT ![r].pc = "done"]
    /\ UNCHANGED <<processes, recs, ostab, calls, clock, runs, ctl,
                   stderr, sinkData, streams, nchunks, outsideProc>>

\* No restart: the writer set is cleared and the callback is called.
WaitCleanup(r) ==
    /\ wait[r].pc = "cleanup"
    /\ logWriters' = [logWriters EXCEPT ![r] = <<>>]
    /\ cbs' = [cbs EXCEPT ![r] = Append(@, recs[r].Status)]
    /\ wait' = [wait EXCEPT ![r].pc = "done"]
    /\ UNCHANGED <<processes, recs, ostab, calls, clock, runs, ctl,
                   stdout, stderr, logs, sinkData, streams, nchunks, outsideProc>>

(***************************************************************************)
(* GetProcessByIdentifier.  An identifier is <<"pid", p>> (it parses as an *)
(* integer) or <<"name", n>>.                                              *)
(***************************************************************************)
Identifiers == ({"pid"} \X Pids) \cup ({"name"} \X Names)

\* The records the map holds.
Stored == {processes[p] : p \in Pids} \ {None}

\* "find the most recent process with this name"
LatestNamed(n) ==
    LET c == {r \in Stored : recs[r].Name = n}
    IN IF c = {} THEN None
       ELSE CHOOSE r \in c : \A q \in c : recs[q].StartedAt <= recs[r].StartedAt

GetProcessByIdentifier(id) ==
    IF id[1] = "pid" THEN processes[id[2]] ELSE LatestNamed(id[2])

\* The lookup's write: found by pid and running, the record's ProcessPid is
\* set to the integer value of its agent-PID.
AfterLookup(id) ==
    LET r == GetProcessByIdentifier(id)
    IN IF id[1] = "pid" /\ r # None /\ recs[r].Status = StatusRunning
       THEN [recs EXCEPT ![r].ProcessPid = recs[r].PID]
       ELSE recs

(***************************************************************************)
(* StopProcess and KillProcess, one step per shared read or write.         *)
(***************************************************************************)
Returned(call, res) == [call EXCEPT !.pc = "idle", !.res = res, !.n = @ + 1]

\* StopProcess up to its checks: not found, not running, or go on.
StopProcess(c, id) ==
    /\ calls[c].pc = "idle"
    /\ recs' = AfterLookup(id)
    /\ LET r == GetProcessByIdentifier(id)
       IN calls' = [calls EXCEPT ![c] =
            IF r = None THEN Returned(@, "notfound")
            ELSE IF recs[r].Status # StatusRunning THEN Returned(@, "notrunning")
            ELSE [@ EXCEPT !.pc = "notify", !.op = "stop", !.rec = r, !.run = TRUE]]
    /\ UNCHANGED <<processes, ostab, wait, cbs, clock, runs, ctl, logVars, outsideProc>>

\* KillProcess up to its checks: it does not look at the status.
KillProcess(c, id) ==
    /\ calls[c].pc = "idle"
    /\ recs' = AfterLookup(id)
    /\ LET r == GetProcessByIdentifier(id)
       IN calls' = [calls EXCEPT ![c] =
            IF r = None THEN Returned(@, "notfound")
            ELSE [@ EXCEPT !.pc = "notify", !.op = "kill", !.rec = r,
                           !.run = (recs[r].Status = StatusRunning)]]
    /\ UNCHANGED <<processes, ostab, wait, cbs, clock, runs, ctl, logVars, outsideProc>>

NoticeOf(op) == IF op = "stop" THEN <<"term", 0>> ELSE <<"kill", 0>>

\* The termination notice: to every attached sink under the read lock, then
\* to the stdout buffer (not to the combined buffer).
CallNotify(c) ==
    /\ calls[c].pc = "notify"
    /\ sinkData' = WriteAll(sinkData, logWriters[calls[c].rec], "", NoticeOf(calls[c].op))
    /\ stdout' = [stdout EXCEPT ![calls[c].rec] = Append(@, NoticeOf(calls[c].op))]
    /\ calls' = [calls EXCEPT ![c].pc = "signal"]
    /\ UNCHANGED <<processes, recs, ostab, wait, cbs, clock, runs, ctl,
                   stderr, logs, logWriters, streams, nchunks, outsideProc>>

\* The process table after signal sg was sent to pid p (and its group).
Signalled(p, sg) ==
    IF ostab[p].st = "run"
    THEN [ostab EXCEPT ![p].sig = IF sg = "kill" \/ @ = "kill" THEN "kill" ELSE "term"]
    ELSE ostab

\* syscall.Kill(-pid, sig), then syscall.Kill(pid, sig): both fail with ESRCH
\* when no such process exists, and the call returns that error.
CallSignal(c) ==
    /\ calls[c].pc = "signal"
    /\ LET p == recs[calls[c].rec].ProcessPid
       IN IF ostab[p].st = "free"
          THEN /\ calls' = [calls EXCEPT ![c] = Returned(@, "sigfail")]
               /\ ostab' = ostab
          ELSE /\ calls' = [calls EXCEPT ![c].pc = "setStatus"]
               /\ ostab' = Signalled(p, IF calls[c].op = "stop" THEN "term" ELSE "kill")
    /\ UNCHANGED <<processes, recs, wait, cbs, clock, runs, ctl, logVars, outsideProc>>

StatusOf(op) == IF op = "stop" THEN StatusStopped ELSE StatusKilled

\* process.Status = StatusStopped (StatusKilled); return nil
CallSetStatus(c) ==
    /\ calls[c].pc = "setStatus"
    /\ recs' = [recs EXCEPT ![calls[c].rec].Status = StatusOf(calls[c].op)]
    /\ ctl' = [ctl EXCEPT ![calls[c].rec] =
                 [armed |-> @.armed \/ calls[c].run, last |-> StatusOf(calls[c].op)]]
    /\ calls' = [calls EXCEPT ![c] = Returned(@, "ok")]
    /\ UNCHANGED <<processes, ostab, wait, cbs, clock, runs, logVars, outsideProc>>

(***************************************************************************)
(* The supervisor's specification.                                         *)
(***************************************************************************)
InitProc ==
    /\ processes = [p \in Pids |-> None]
    /\ recs = <<>>
    /\ ostab = [p \in Pids |-> FreeProc]
    /\ wait = <<>>
    /\ calls = [c \in Callers |-> IdleCall]
    /\ cbs = <<>>
    /\ clock = 0
    /\ runs = <<>>
    /\ ctl = <<>>

InitLog ==
    /\ stdout = <<>>
    /\ stderr = <<>>
    /\ logs = <<>>
    /\ logWriters = <<>>
    /\ sinkData = [s \in Sinks |-> <<>>]
    /\ streams = [s \in Sinks |-> IdleStream]
    /\ nchunks = <<>>

InitUpload ==
    /\ uploads = {}
    /\ sess = <<>>
    /\ disk = <<>>
    /\ target = NoFile
    /\ mmu = "none"
    /\ umu = <<>>
    /\ ucalls = [c \in UpCallers |-> IdleUpCall]
    /\ gone = <<>>
    /\ rejected = <<>>
    /\ okparts = [id \in Sessions |-> [n \in PartNos |-> <<>>]]

InitNet ==
    /\ portsByPID = [p \in NetPids |-> NoPortMap]
    /\ callbacks = [p \in NetPids |-> <<>>]
    /\ monitoredPIDs = {}
    /\ isMonitoring = FALSE
    /\ osPorts = [p \in NetPids |-> {}]
    /\ prevScan = [p \in NetPids |-> NoPortMap]
    /\ fired = <<>>
    /\ ticked = [p \in NetPids |-> NoTick]
    /\ nregs = 0
    /\ nmu = Unlocked
    /\ mon = <<>>
    /\ ncalls = [c \in NetCallers |-> IdleNetCall]

InitWS ==
    /\ wsMu = NoG
    /\ wsG = [g \in WsGs |->
                CASE g = ReadG -> WsAt("read")
                  [] g = PingG -> WsAt("wait")
                  [] OTHER -> WsAt("idle")]
    /\ wsInWrite = {}
    /\ wsSent = [g \in WsGs |-> <<>>]
    /\ activeStreams = [m \in MsgIds |-> None]
    /\ wsCancel = [i \in StreamIds |-> "unmade"]
    /\ wsDone = FALSE
    /\ wsAttached = {}

\* No ExecuteProcess call was made yet.
IdleExec == [pc |-> "idle", wfc |-> FALSE, timeout |-> 0, pid |-> None, res |-> "none"]

InitExec == exec = IdleExec

\* No subscription yet; only the root directory exists.
InitWatch ==
    /\ watch = [mode |-> "none", pc |-> "off", cur |-> <<>>, watcher |-> "none",
                stopChan |-> "unmade", closes |-> 0, stops |-> 0, fault |-> FALSE]
    /\ wfs = [dirs |-> {<<>>}, watched |-> {}, events |-> <<>>, created |-> {}, sink |-> {}]

\* A path is whether it starts with "/" and its elements.
PathOf(abs, segs) == [abs |-> abs, segs |-> segs]

\* No path was resolved yet.
InitPath ==
    resolved = [called |-> FALSE, wd |-> <<>>, path |-> PathOf(FALSE, <<>>),
                out |-> PathOf(FALSE, <<>>), err |-> FALSE]

\* No execute request was received yet.
IdleHandler == [pc |-> "idle", name |-> "", rof |-> FALSE, mr |-> 0, res |-> "none"]

InitReq == handlers = [h \in Handlers |-> IdleHandler]

Init ==
    /\ InitProc /\ InitLog /\ InitUpload /\ InitNet /\ InitWS /\ InitExec /\ InitWatch /\ InitPath
    /\ InitReq

WaitStep(r) ==
    \/ WaitReturn(r)
    \/ WaitReadStatus(r)
    \/ WaitSetStatus(r)
    \/ WaitStore(r)
    \/ WaitCheck(r)
    \/ WaitNotice(r)
    \/ WaitNotify(r)
    \/ WaitIncrement(r)
    \/ RestartPipeFail(r)
    \/ RestartReset(r)
    \/ RestartStart(r)
    \/ RestartStartFail(r)
    \/ WaitRestartErr(r)
    \/ WaitCleanup(r)

\* A caller makes at most MaxCalls calls.
CallStep(c) ==
    \/ \E id \in Identifiers : calls[c].n < MaxCalls /\ StopProcess(c, id)
    \/ \E id \in Identifiers : calls[c].n < MaxCalls /\ KillProcess(c, id)
    \/ CallNotify(c)
    \/ CallSignal(c)
    \/ CallSetStatus(c)

Spawn ==
    /\ \E n \in Names, in \in SpawnInputs : StartProcessWithName(n, in[1], in[2])
    /\ UNCHANGED reqVars
Exit == \E p \in Pids, out \in {"ok", "fail", "sig"} : ChildExit(p, out)

\* One record: its children, its wait goroutine, and the Stop/Kill calls.
NextProc ==
    \/ recs = <<>> /\ Spawn
    \/ Exit
    \/ \E r \in RecIds : WaitStep(r)
    \/ \E c \in Callers : CallStep(c)

SpecProc == Init /\ [][NextProc]_vars

\* Several records and the index: up to MaxSpawns spawns.
NextIndex ==
    \/ Len(recs) < MaxSpawns /\ Spawn
    \/ Exit
    \/ \E r \in RecIds : WaitStep(r)

SpecIndex == Init /\ [][NextIndex]_vars

(***************************************************************************)
(* Output capture and log fan-out: the two reader goroutines of a child    *)
(* (process.go:202-251), StreamProcessOutput and RemoveLogWriter.          *)
(***************************************************************************)
\* One pass of a reader's loop body on a chunk the child wrote to the pipe:
\* under logLock it goes to the reader's own buffer, to the combined buffer
\* and, prefixed, to every attached sink.
ReadChunk(r, kind, prefix) ==
    /\ wait[r].pc = "wait"
    /\ ostab[wait[r].pid].st = "run"
    /\ LET ch == <<kind, nchunks[r] + 1>>
       IN /\ IF kind = "out"
             THEN stdout' = [stdout EXCEPT ![r] = Append(@, ch)] /\ UNCHANGED stderr
             ELSE stderr' = [stderr EXCEPT ![r] = Append(@, ch)] /\ UNCHANGED stdout
          /\ logs' = [logs EXCEPT ![r] = Append(@, ch)]
          /\ sinkData' = WriteAll(sinkData, logWriters[r], prefix, ch)
    /\ nchunks' = [nchunks EXCEPT ![r] = @ + 1]
    /\ UNCHANGED <<procVars, logWriters, streams, outsideProc>>

ReadStdout(r) == ReadChunk(r, "out", "stdout:")
ReadStderr(r) == ReadChunk(r, "err", "stderr:")

\* StreamProcessOutput, the lookup.
StreamProcessOutput(s, id) ==
    /\ streams[s].pc = "idle"
    /\ recs' = AfterLookup(id)
    /\ LET r == GetProcessByIdentifier(id)
       IN streams' = [streams EXCEPT ![s] =
            IF r = None THEN [@ EXCEPT !.pc = "notfound"]
            ELSE [@ EXCEPT !.pc = "history", !.rec = r, !.id = id]]
    /\ UNCHANGED <<processes, ostab, wait, calls, cbs, clock, runs, ctl,
                   stdout, stderr, logs, logWriters, sinkData, nchunks, outsideProc>>

\* The whole of the combined buffer as a sequence of sink writes.
History(r) == [i \in 1..Len(logs[r]) |-> <<"", logs[r][i]>>]

\* "Write current content first": w.Write(process.logs.String()), with no
\* lock held.
StreamHistory(s) ==
    /\ streams[s].pc = "history"
    /\ sinkData' = [sinkData EXCEPT ![s] = @ \o History(streams[s].rec)]
    /\ streams' = [streams EXCEPT ![s].pc = "attach", ![s].hist = Len(logs[streams[s].rec])]
    /\ UNCHANGED <<procVars, stdout, stderr, logs, logWriters, nchunks, outsideProc>>

\* "Attach writer for future output", under logLock; the keepalive
\* goroutine is started.
StreamAttach(s) ==
    /\ streams[s].pc = "attach"
    /\ logWriters' = [logWriters EXCEPT ![streams[s].rec] = Append(@, s)]
    /\ streams' = [streams EXCEPT ![s].pc = "attached", ![s].ka = "run"]
    /\ UNCHANGED <<procVars, stdout, stderr, logs, sinkData, nchunks, outsideProc>>

\* A tick of the keepalive goroutine: it looks the identifier up again and
\* ends unless the record is running; else it writes to its sink, with no
\* lock held.
Keepalive(s) ==
    /\ streams[s].ka = "run"
    /\ recs' = AfterLookup(streams[s].id)
    /\ LET r == GetProcessByIdentifier(streams[s].id)
       IN IF r = None \/ recs[r].Status # StatusRunning
          THEN /\ streams' = [streams EXCEPT ![s].ka = "end"]
               /\ UNCHANGED sinkData
          ELSE /\ streams' = [streams EXCEPT ![s].kn = @ + 1]
               /\ sinkData' = [sinkData EXCEPT ![s] = Append(@, <<"", <<"keepalive", 0>>>>)]
    /\ UNCHANGED <<processes, ostab, wait, calls, cbs, clock, runs, ctl,
                   stdout, stderr, logs, logWriters, nchunks, outsideProc>>

\* ws without the first occurrence of s.
RemoveFirst(ws, s) ==
    IF \E i \in 1..Len(ws) : ws[i] = s
    THEN LET i == CHOOSE i \in 1..Len(ws) : ws[i] = s /\ \A j \in 1..(i - 1) : ws[j] # s
         IN SubSeq(ws, 1, i - 1) \o SubSeq(ws, i + 1, Len(ws))
    ELSE ws

\* RemoveLogWriter: the identifier is looked up again.
RemoveLogWriter(s) ==
    /\ streams[s].pc = "attached"
    /\ recs' = AfterLookup(streams[s].id)
    /\ LET r == GetProcessByIdentifier(streams[s].id)
       IN logWriters' = IF r = None THEN logWriters
                        ELSE [logWriters EXCEPT ![r] = RemoveFirst(@, s)]
    /\ streams' = [streams EXCEPT ![s].pc = "removed"]
    /\ UNCHANGED <<processes, ostab, wait, calls, cbs, clock, runs, ctl,
                   stdout, stderr, logs, sinkData, nchunks, outsideProc>>

\* A child writes at most MaxChunks chunks.
ReadStep(r) ==
    \/ nchunks[r] < MaxChunks /\ ReadStdout(r)
    \/ nchunks[r] < MaxChunks /\ ReadStderr(r)

StreamStep(s) ==
    \/ \E id \in Identifiers : StreamProcessOutput(s, id)
    \/ StreamHistory(s)
    \/ StreamAttach(s)
    \/ streams[s].kn < MaxKeepalives /\ Keepalive(s)
    \/ RemoveLogWriter(s)

\* One record with its readers, and the sinks streaming it.
NextLog ==
    \/ recs = <<>> /\ Spawn
    \/ Exit
    \/ \E r \in RecIds : WaitStep(r)
    \/ \E r \in RecIds : ReadStep(r)
    \/ \E s \in Sinks : StreamStep(s)

SpecLog == Init /\ [][NextLog]_vars

\* One record left to itself: its children, their readers and its wait
\* goroutines.
NextRestart ==
    \/ recs = <<>> /\ Spawn
    \/ Exit
    \/ \E r \in RecIds : WaitStep(r)
    \/ \E r \in RecIds : ReadStep(r)

SpecRestart == Init /\ [][NextRestart]_vars

\* The wait goroutines are scheduled.
SpecRestartFair ==
    /\ SpecRestart
    /\ WF_vars(\E r \in RecIds : WaitStep(r))

(***************************************************************************)
(* ExecuteProcess: the spawn, then the wait for the completion callback or *)
(* the timeout.  No ports are waited for.                                  *)
(***************************************************************************)
\* The call is made; it goes on to start the process.
ExecuteProcess(wfc, timeout) ==
    /\ exec.pc = "idle"
    /\ exec' = [IdleExec EXCEPT !.pc = "start", !.wfc = wfc, !.timeout = timeout]
    /\ UNCHANGED <<procVars, logVars, outsideExec>>

\* pm.StartProcessWithName(..., callback), made by the call.
ExecStart ==
    /\ exec.pc = "start"
    /\ recs = <<>>
    /\ \E n \in Names, in \in SpawnInputs : StartProcessWithName(n, in[1], in[2])
    /\ UNCHANGED reqVars

\* StartProcessWithName has returned the agent-PID: the call waits in the
\* select if waitForCompletion, else it goes on to the lookup.
ExecStarted ==
    /\ exec.pc = "start"
    /\ recs # <<>>
    /\ exec' = [exec EXCEPT !.pc = IF exec.wfc THEN "select" ELSE "lookup",
                             !.pid = recs[Len(recs)].PID]
    /\ UNCHANGED <<procVars, logVars, outsideExec>>

\* The callback's send "completionCh <- p.PID" is waiting to be received.
CallbackSending == \E r \in RecIds : cbs[r] # <<>> /\ recs[r].PID = exec.pid

\* The select's case "receivedPID := <-completionCh".
ExecReceive ==
    /\ exec.pc = "select"
    /\ CallbackSending
    /\ exec' = [exec EXCEPT !.pc = IF processes[exec.pid] = None THEN "returned" ELSE "lookup",
                             !.res = IF processes[exec.pid] = None THEN "missing" ELSE "none"]
    /\ recs' = AfterLookup(<<"pid", exec.pid>>)
    /\ UNCHANGED <<processes, ostab, wait, calls, cbs, clock, runs, ctl, logVars, outsideExec>>

\* The timeout kills the child before the call returns its error.
ExecTimeoutKills ==
    /\ exec.pc = "select"
    /\ exec.timeout > 0
    /\ exec' = [exec EXCEPT !.pc = "returned", !.res = "timeout"]
    /\ ostab' = [p \in Pids |-> IF ostab[p].st = "run" THEN [ostab[p] EXCEPT !.sig = "kill"] ELSE ostab[p]]
    /\ UNCHANGED <<processes, recs, wait, calls, cbs, clock, runs, ctl, logVars, outsideExec>>

\* The select's case "<-ctx.Done()": the timeout error is returned.
ExecTimeout ==
    /\ exec.pc = "select"
    /\ exec.timeout > 0
    /\ exec' = [exec EXCEPT !.pc = "returned", !.res = "timeout"]
    /\ UNCHANGED <<procVars, logVars, outsideExec>>

\* "Get the process info": the lookup by agent-PID and the return.
ExecLookup ==
    /\ exec.pc = "lookup"
    /\ recs' = AfterLookup(<<"pid", exec.pid>>)
    /\ exec' = [exec EXCEPT !.pc = "returned",
                             !.res = IF processes[exec.pid] = None THEN "missing" ELSE "ok"]
    /\ UNCHANGED <<processes, ostab, wait, calls, cbs, clock, runs, ctl, logVars, outsideExec>>

\* One ExecuteProcess call, the record it makes and that record's goroutines.
NextExec ==
    \/ \E wfc \in BOOLEAN, t \in 0..MaxTimeout : ExecuteProcess(wfc, t)
    \/ ExecStart
    \/ ExecStarted
    \/ ExecReceive
    \/ ExecTimeout
    \/ ExecLookup
    \/ Exit
    \/ \E r \in RecIds : WaitStep(r)
    \/ \E r \in RecIds : ReadStep(r)

SpecExec == Init /\ [][NextExec]_vars

(***************************************************************************)
(* Execute requests: HandleExecuteCommand (POST /process) and              *)
(* handleProcessExecute (WebSocket), each on the goroutine of its request. *)
(* The requests do not wait for completion or for ports.                   *)
(***************************************************************************)
\* "If a name is provided, check if a process with that name already exists":
\* the request is refused when the lookup by name finds a running record.
HandleExecuteCommand(h, name, rof, mr) ==
    /\ handlers[h].pc = "idle"
    /\ recs' = AfterLookup(<<"name", name>>)
    /\ LET r == GetProcessByIdentifier(<<"name", name>>)
       IN handlers' = [handlers EXCEPT ![h] =
            IF r # None /\ recs[r].Status = StatusRunning
            THEN [@ EXCEPT !.pc = "done", !.name = name, !.res = "exists"]
            ELSE [@ EXCEPT !.pc = "execute", !.name = name, !.rof = rof, !.mr = mr]]
    /\ UNCHANGED <<processes, ostab, wait, calls, cbs, clock, runs, ctl, logVars, outsideSpawn>>

\* "Execute the process": ExecuteProcess starts it and the handler answers.
HandleExecuteProcess(h) ==
    /\ handlers[h].pc = "execute"
    /\ StartProcessWithName(handlers[h].name, handlers[h].rof, handlers[h].mr)
    /\ handlers' = [handlers EXCEPT ![h].pc = "done", ![h].res = "ok"]

\* One request on each handler, the records they make and those records'
\* goroutines.
NextExecute ==
    \/ \E h \in Handlers, n \in Names, in \in SpawnInputs :
          HandleExecuteCommand(h, n, in[1], in[2])
    \/ \E h \in Handlers : HandleExecuteProcess(h)
    \/ Exit
    \/ \E r \in RecIds : WaitStep(r)

SpecExecute == Init /\ [][NextExecute]_vars

(***************************************************************************)
(* Directory watches (WatchDirectory, WatchDirectoryRecursive).  A path is *)
(* the sequence of names under the watched root; the root is <<>>.         *)
(***************************************************************************)
DirNames == {"a", "b"}

\* The paths of at most MaxDepth names.
DirPaths == UNION {[1..n -> DirNames] : n \in 1..MaxDepth}

Parent(path) == SubSeq(path, 1, Len(path) - 1)

IsUnder(path, root) == Len(root) <= Len(path) /\ SubSeq(path, 1, Len(root)) = root

\* addDirs(root): filepath.Walk adds a watch for root and for every
\* directory under it; watcher.Add fails on a closed watcher.
AddDirs(root) ==
    IF watch.watcher = "open" /\ root \in wfs.dirs
    THEN wfs.watched \cup {d \in wfs.dirs : IsUnder(d, root)}
    ELSE wfs.watched

\* WatchDirectory: one watch, on the directory itself.
WatchDirectory ==
    /\ watch.pc = "off"
    /\ watch' = [watch EXCEPT !.mode = "flat", !.pc = "select", !.watcher = "open", !.stopChan = "open"]
    /\ wfs' = [wfs EXCEPT !.watched = {<<>>}]
    /\ UNCHANGED outsideWatch

\* WatchDirectoryRecursive: a watch on every directory that exists now.
WatchDirectoryRecursive ==
    /\ watch.pc = "off"
    /\ watch' = [watch EXCEPT !.mode = "recursive", !.pc = "select", !.watcher = "open", !.stopChan = "open"]
    /\ wfs' = [wfs EXCEPT !.watched = wfs.dirs]
    /\ UNCHANGED outsideWatch

\* Some program creates the directory path; the kernel queues a CREATE
\* event when the parent directory is watched.
Mkdir(path) ==
    /\ path \notin wfs.dirs
    /\ Parent(path) \in wfs.dirs
    /\ wfs' = [wfs EXCEPT
          !.dirs = @ \cup {path},
          !.created = IF watch.pc = "off" THEN @ ELSE @ \cup {path},
          !.events = IF watch.watcher = "open" /\ Parent(path) \in wfs.watched
                     THEN Append(@, path) ELSE @]
    /\ UNCHANGED <<watch, outsideWatch>>

\* case event := <-watcher.Events: the callback is called with the event;
\* in recursive mode the goroutine goes on to look at a created path, in
\* single-directory mode it returns after the REMOVE or RENAME of the
\* watched directory itself (the one event that names the root, <<>>).
WatchEvent ==
    /\ watch.pc = "select"
    /\ watch.watcher = "open"
    /\ wfs.events # <<>>
    /\ wfs' = [wfs EXCEPT !.events = Tail(@), !.sink = @ \cup {Head(wfs.events)}]
    /\ watch' = [watch EXCEPT !.pc = IF Head(wfs.events) = <<>>
                                     THEN (IF watch.mode = "recursive" THEN "select" ELSE "exit")
                                     ELSE (IF watch.mode = "recursive" THEN "stat" ELSE "select"),
                               !.cur = Head(wfs.events)]
    /\ UNCHANGED outsideWatch

\* os.Stat(event.Name) and, for a directory, addDirs(event.Name).
WatchAddDirs ==
    /\ watch.pc = "stat"
    /\ wfs' = [wfs EXCEPT !.watched = AddDirs(watch.cur)]
    /\ watch' = [watch EXCEPT !.pc = "select"]
    /\ UNCHANGED outsideWatch

\* The watcher was closed: watcher.Events is closed and the goroutine
\* returns.
WatchClosed ==
    /\ watch.pc = "select"
    /\ watch.watcher = "closed"
    /\ watch' = [watch EXCEPT !.pc = "exit"]
    /\ UNCHANGED <<wfs, outsideWatch>>

\* stop(): close(stopChan), then watcher.Close().  close of a closed
\* channel panics, and the call ends there; Close of a closed watcher does
\* nothing.
Stop ==
    /\ watch.stopChan # "unmade"
    /\ watch.stops < MaxStops
    /\ watch' = IF watch.stopChan = "open"
                THEN [watch EXCEPT !.stops = @ + 1, !.stopChan = "closed",
                                   !.watcher = "closed",
                                   !.closes = IF watch.watcher = "open" THEN @ + 1 ELSE @]
                ELSE [watch EXCEPT !.stops = @ + 1, !.stopChan = "closed twice", !.fault = TRUE]
    /\ UNCHANGED <<wfs, outsideWatch>>

\* Some program removes or renames the watched root: the kernel queues the
\* event that names the directory itself and drops the watches on what is
\* gone.
RemoveRoot ==
    /\ <<>> \in wfs.dirs
    /\ wfs' = [wfs EXCEPT
          !.dirs = {},
          !.watched = {},
          !.events = IF watch.watcher = "open" /\ <<>> \in wfs.watched
                     THEN Append(@, <<>>) ELSE @]
    /\ UNCHANGED <<watch, outsideWatch>>

\* HandleWatchDirectory: the handler waits on done, which the keepalive
\* goroutine closes when the request context ends or a keepalive write
\* fails; the deferred stop() runs then.
ClientGone ==
    /\ watch.stops = 0
    /\ Stop

NextWatch ==
    \/ WatchDirectory
    \/ WatchDirectoryRecursive
    \/ \E path \in DirPaths : Mkdir(path)
    \/ WatchEvent
    \/ WatchAddDirs
    \/ WatchClosed
    \/ Stop

SpecWatch == Init /\ [][NextWatch]_vars

(***************************************************************************)
(* Path resolution (Filesystem.GetAbsolutePath).                           *)
(***************************************************************************)
\* The elements a path is made of.
Segs == {"..", ".", "x", "r"}

\* The root directory "/r" and the working directories "/r" and "/r/x".
Root == <<"r">>
WorkingDirs == {<<"r">>, <<"r", "x">>}

\* The input paths.
InputPaths == {PathOf(abs, segs) : abs \in BOOLEAN, segs \in UNION {[1..n -> Segs] : n \in 0..MaxSegs}}

\* filepath.Clean on the elements: "." is dropped; ".." removes the
\* element before it, is dropped at the root of an absolute path and is
\* kept at the start of a relative one.
RECURSIVE CleanFrom(_, _, _)
CleanFrom(abs, done, rest) ==
    IF rest = <<>> THEN done
    ELSE LET e == Head(rest)
         IN CASE e = "." -> CleanFrom(abs, done, Tail(rest))
              [] e = ".." /\ done # <<>> /\ done[Len(done)] # ".." ->
                     CleanFrom(abs, SubSeq(done, 1, Len(done) - 1), Tail(rest))
              [] e = ".." /\ done = <<>> /\ abs -> CleanFrom(abs, done, Tail(rest))
              [] OTHER -> CleanFrom(abs, Append(done, e), Tail(rest))

Clean(path) == PathOf(path.abs, CleanFrom(path.abs, <<>>, path.segs))

\* filepath.Join(fs.WorkingDir, path)
Join(wd, path) == Clean(PathOf(TRUE, wd \o path.segs))

\* The number of leading elements two element lists share.
RECURSIVE Common(_, _)
Common(a, b) ==
    IF a # <<>> /\ b # <<>> /\ Head(a) = Head(b) THEN 1 + Common(Tail(a), Tail(b)) ELSE 0

\* filepath.Rel(base, targ) for two clean absolute paths: one ".." for each
\* element of base after the shared start, then the rest of targ.
Rel(base, targ) ==
    LET n == Common(base, targ)
    IN [i \in 1..(Len(base) - n) |-> ".."] \o SubSeq(targ, n + 1, Len(targ))

\* strings.HasPrefix(relPath, "../"): the text starts with ".." and a
\* separator, so another element follows.
HasDotDotSlashPrefix(rel) == Len(rel) >= 2 /\ rel[1] = ".."

\* The check of the relative inputs.
OutsideRoot(absPath) == HasDotDotSlashPrefix(Rel(Root, absPath.segs))

GetAbsolutePath(wd, path) ==
    /\ LET absPath == IF path.abs THEN Clean(path) ELSE Join(wd, path)
           bad == ~path.abs /\ OutsideRoot(absPath)
       IN resolved' = [called |-> TRUE, wd |-> wd, path |-> path,
                       out |-> IF bad THEN PathOf(FALSE, <<>>) ELSE absPath,
                       err |-> bad]
    /\ UNCHANGED outsidePath

NextPath == \E wd \in WorkingDirs, path \in InputPaths : GetAbsolutePath(wd, path)

SpecPath == Init /\ [][NextPath]_vars

(***************************************************************************)
(* The port monitor (package network).                                     *)
(***************************************************************************)
\* The listening sockets of the machine change.
PortOpens(p, q) ==
    /\ q \notin osPorts[p]
    /\ osPorts' = [osPorts EXCEPT ![p] = @ \cup {q}]
    /\ UNCHANGED <<portsByPID, callbacks, monitoredPIDs, isMonitoring, prevScan,
                   fired, ticked, nregs, nmu, mon, ncalls, outsideNet>>

PortCloses(p, q) ==
    /\ q \in osPorts[p]
    /\ osPorts' = [osPorts EXCEPT ![p] = @ \ {q}]
    /\ UNCHANGED <<portsByPID, callbacks, monitoredPIDs, isMonitoring, prevScan,
                   fired, ticked, nregs, nmu, mon, ncalls, outsideNet>>

\* GetPortsForPID: RLock, then updatePortsForPID's scan (which can fail).
GetPortsForPID(c, pid, ok) ==
    /\ ncalls[c].pc = "idle"
    /\ nmu.w = "none"
    /\ IF ok
       THEN /\ nmu' = [nmu EXCEPT !.r = @ \cup {c}]
            /\ ncalls' = [ncalls EXCEPT ![c] = [pc |-> "store", pid |-> pid,
                                                scan |-> osPorts[pid], res |-> "none"]]
       ELSE /\ ncalls' = [ncalls EXCEPT ![c].res = "err"]
            /\ UNCHANGED nmu
    /\ UNCHANGED <<portsByPID, callbacks, monitoredPIDs, isMonitoring, osPorts, prevScan,
                   fired, ticked, nregs, mon, outsideNet>>

\* updatePortsForPID's store n.portsByPID[pid] = newPortMap, and the return.
GetPortsStore(c) ==
    /\ ncalls[c].pc = "store"
    /\ portsByPID' = [portsByPID EXCEPT ![ncalls[c].pid] = PortMap(ncalls[c].scan)]
    /\ nmu' = [nmu EXCEPT !.r = @ \ {c}]
    /\ ncalls' = [ncalls EXCEPT ![c].pc = "idle", ![c].res = "ok"]
    /\ UNCHANGED <<callbacks, monitoredPIDs, isMonitoring, osPorts, prevScan,
                   fired, ticked, nregs, mon, outsideNet>>

\* RegisterPortOpenCallback, the whole call under the lock; the callback is
\* named by its registration number.
RegisterPortOpenCallback(c, pid) ==
    /\ ncalls[c].pc = "idle"
    /\ nmu = Unlocked
    /\ callbacks' = [callbacks EXCEPT ![pid] = Append(@, nregs + 1)]
    /\ nregs' = nregs + 1
    /\ monitoredPIDs' = monitoredPIDs \cup {pid}
    /\ mon' = IF ~isMonitoring THEN Append(mon, "start") ELSE mon
    /\ UNCHANGED <<portsByPID, isMonitoring, osPorts, prevScan, fired, ticked,
                   nmu, ncalls, outsideNet>>

\* UnregisterPortOpenCallback up to its send on stopMonitoring, which it
\* makes holding the lock.
UnregisterPortOpenCallback(c, pid) ==
    /\ ncalls[c].pc = "idle"
    /\ nmu = Unlocked
    /\ callbacks' = [callbacks EXCEPT ![pid] = <<>>]
    /\ monitoredPIDs' = monitoredPIDs \ {pid}
    /\ IF monitoredPIDs \ {pid} = {} /\ isMonitoring
       THEN /\ nmu' = [nmu EXCEPT !.w = c]
            /\ ncalls' = [ncalls EXCEPT ![c].pc = "send"]
       ELSE UNCHANGED <<nmu, ncalls>>
    /\ UNCHANGED <<portsByPID, isMonitoring, osPorts, prevScan, fired, ticked,
                   nregs, mon, outsideNet>>

\* The deferred Unlock of an Unregister whose send was received.
UnregisterReturn(c) ==
    /\ ncalls[c].pc = "unlock"
    /\ nmu' = Unlocked
    /\ ncalls' = [ncalls EXCEPT ![c].pc = "idle"]
    /\ UNCHANGED <<portsByPID, callbacks, monitoredPIDs, isMonitoring, osPorts, prevScan,
                   fired, ticked, nregs, mon, outsideNet>>

\* startMonitoring's first lines.
MonitorStart(g) ==
    /\ mon[g] = "start"
    /\ nmu = Unlocked
    /\ IF isMonitoring
       THEN mon' = [mon EXCEPT ![g] = "exit"] /\ UNCHANGED isMonitoring
       ELSE mon' = [mon EXCEPT ![g] = "loop"] /\ isMonitoring' = TRUE
    /\ UNCHANGED <<portsByPID, callbacks, monitoredPIDs, osPorts, prevScan,
                   fired, ticked, nregs, nmu, ncalls, outsideNet>>

\* The select takes the ticker's case; the tick then waits for the lock.
TickerFires(g) ==
    /\ mon[g] = "loop"
    /\ mon' = [mon EXCEPT ![g] = "tick"]
    /\ UNCHANGED <<portsByPID, callbacks, monitoredPIDs, isMonitoring, osPorts, prevScan,
                   fired, ticked, nregs, nmu, ncalls, outsideNet>>

\* The select takes the stop case: the send of an Unregister completes.
MonitorRecvStop(g, c) ==
    /\ mon[g] = "loop"
    /\ ncalls[c].pc = "send"
    /\ mon' = [mon EXCEPT ![g] = "stopped"]
    /\ ncalls' = [ncalls EXCEPT ![c].pc = "unlock"]
    /\ UNCHANGED <<portsByPID, callbacks, monitoredPIDs, isMonitoring, osPorts, prevScan,
                   fired, ticked, nregs, nmu, outsideNet>>

\* "n.isMonitoring = false" under the lock, and the goroutine returns.
MonitorStopped(g) ==
    /\ mon[g] = "stopped"
    /\ nmu = Unlocked
    /\ isMonitoring' = FALSE
    /\ mon' = [mon EXCEPT ![g] = "exit"]
    /\ UNCHANGED <<portsByPID, callbacks, monitoredPIDs, osPorts, prevScan,
                   fired, ticked, nregs, nmu, ncalls, outsideNet>>

\* The elements of a set of numbers in ascending order.
Ascending(S) ==
    CHOOSE f \in [1..Cardinality(S) -> S] :
        \A i, j \in 1..Cardinality(S) : i < j => f[i] < f[j]

\* "Check for new ports": the ports of new that old does not have.
NewPorts(old, scan) == {q \in scan : q \notin old.ports}

\* The goroutines "go callback(pid, portInfo)" starts for one pid: for each
\* new port, one per registered callback.
Launches(pid, ps, fs) ==
    LET qs == Ascending(ps)
    IN [k \in 1..(Len(qs) * Len(fs)) |->
            <<pid, fs[((k - 1) % Len(fs)) + 1], qs[((k - 1) \div Len(fs)) + 1]>>]

RECURSIVE TickLaunches(_, _)
\* The goroutines a tick starts for the pids of the sequence from index i on:
\* a pid whose scan failed is skipped.
TickLaunches(pids, i) ==
    IF i > Len(pids) THEN <<>>
    ELSE Launches(pids[i], NewPorts(portsByPID[pids[i]], osPorts[pids[i]]),
                  callbacks[pids[i]])
         \o TickLaunches(pids, i + 1)

\* One tick, under the lock, over every monitored pid; the scans of the
\* pids in errs fail.
MonitorTick(g, errs) ==
    /\ mon[g] = "tick"
    /\ nmu = Unlocked
    /\ LET scanned == monitoredPIDs \ errs
       IN /\ portsByPID' = [p \in NetPids |->
                IF p \in scanned THEN PortMap(osPorts[p]) ELSE portsByPID[p]]
          /\ fired' = TickLaunches(Ascending(scanned), 1)
          /\ ticked' = [p \in NetPids |->
                IF p \in scanned
                THEN [ok |-> TRUE, hadPrev |-> prevScan[p].has, prev |-> prevScan[p].ports,
                      new |-> osPorts[p], cbs |-> callbacks[p]]
                ELSE NoTick]
          /\ prevScan' = [p \in NetPids |->
                IF p \in scanned THEN PortMap(osPorts[p]) ELSE prevScan[p]]
    /\ mon' = [mon EXCEPT ![g] = "loop"]
    /\ UNCHANGED <<callbacks, monitoredPIDs, isMonitoring, osPorts, nregs, nmu,
                   ncalls, outsideNet>>

NetCall(c) ==
    \/ \E p \in NetPids, ok \in BOOLEAN : GetPortsForPID(c, p, ok)
    \/ GetPortsStore(c)
    \/ \E p \in NetPids : nregs < MaxRegs /\ RegisterPortOpenCallback(c, p)
    \/ \E p \in NetPids : UnregisterPortOpenCallback(c, p)
    \/ UnregisterReturn(c)

Monitor(g) ==
    \/ MonitorStart(g)
    \/ TickerFires(g)
    \/ \E c \in NetCallers : MonitorRecvStop(g, c)
    \/ MonitorStopped(g)
    \/ \E errs \in SUBSET monitoredPIDs : MonitorTick(g, errs)

NextNet ==
    \/ \E p \in NetPids, q \in Ports : PortOpens(p, q)
    \/ \E p \in NetPids, q \in Ports : PortCloses(p, q)
    \/ \E c \in NetCallers : NetCall(c)
    \/ \E g \in 1..Len(mon) : Monitor(g)

SpecNet == Init /\ [][NextNet]_vars

\* The life of the monitor goroutines: registrations, unregistrations and
\* the goroutines they start and stop.
NextMonitor ==
    \/ \E p \in NetPids, q \in Ports : PortOpens(p, q)
    \/ \E c \in NetCallers, p \in NetPids : nregs < MaxRegs /\ RegisterPortOpenCallback(c, p)
    \/ \E c \in NetCallers, p \in NetPids : UnregisterPortOpenCallback(c, p)
    \/ \E c \in NetCallers : UnregisterReturn(c)
    \/ \E g \in 1..Len(mon) : Monitor(g)

SpecMonitor == Init /\ [][NextMonitor]_vars

\* The goroutines are scheduled: a goroutine waiting for n.mutex gets it
\* when it is free again and again, the select takes a case that is ready
\* again and again, and the ticker fires.
SpecMonitorFair ==
    /\ SpecMonitor
    /\ WF_vars(\E c \in NetCallers : UnregisterReturn(c))
    /\ \A g \in 1..MaxRegs :
          /\ SF_vars(g \in 1..Len(mon) /\ MonitorStart(g))
          /\ WF_vars(g \in 1..Len(mon) /\ TickerFires(g))
          /\ SF_vars(g \in 1..Len(mon) /\ \E c \in NetCallers : MonitorRecvStop(g, c))
          /\ SF_vars(g \in 1..Len(mon) /\ MonitorStopped(g))
          /\ SF_vars(g \in 1..Len(mon) /\ \E errs \in SUBSET monitoredPIDs : MonitorTick(g, errs))

\* A callback goroutine that the last tick started for pid calls
\* UnregisterPortOpenCallback(pid), as the wait-for-ports callback of
\* ExecuteProcess does once it has seen its ports.
CallbackUnregisters(c, pid) ==
    /\ \E k \in 1..Len(fired) : fired[k][1] = pid
    /\ UnregisterPortOpenCallback(c, pid)

\* Registrations by clients; unregistrations only by the callbacks.
NextCallback ==
    \/ \E p \in NetPids, q \in Ports : PortOpens(p, q)
    \/ \E c \in NetCallers, p \in NetPids : nregs < MaxRegs /\ RegisterPortOpenCallback(c, p)
    \/ \E c \in NetCallers, p \in NetPids : CallbackUnregisters(c, p)
    \/ \E c \in NetCallers : UnregisterReturn(c)
    \/ \E g \in 1..Len(mon) : Monitor(g)

SpecCallback == Init /\ [][NextCallback]_vars

\* The scheduling of SpecMonitorFair.
SpecCallbackFair ==
    /\ SpecCallback
    /\ WF_vars(\E c \in NetCallers : UnregisterReturn(c))
    /\ \A g \in 1..MaxRegs :
          /\ SF_vars(g \in 1..Len(mon) /\ MonitorStart(g))
          /\ WF_vars(g \in 1..Len(mon) /\ TickerFires(g))
          /\ SF_vars(g \in 1..Len(mon) /\ \E c \in NetCallers : MonitorRecvStop(g, c))
          /\ SF_vars(g \in 1..Len(mon) /\ MonitorStopped(g))
          /\ SF_vars(g \in 1..Len(mon) /\ \E errs \in SUBSET monitoredPIDs : MonitorTick(g, errs))

(***************************************************************************)
(* The multipart upload manager (morph.go:236-590), one step per lock      *)
(* section or file-system call.  One target path is used.                  *)
(***************************************************************************)
\* hex(md5(b)) of the byte strings the model uses.
MD5(b) ==
    CASE b = <<>> -> "d41d8cd98f00b204e9800998ecf8427e"
      [] b = <<"A">> -> "7fc56270e7a70fa81a5935b72eacbe29"
      [] b = <<"B", "B">> -> "9d3d9048db16a7eee539e93e3618cbe7"
      [] OTHER -> "other"

\* The parts lists handed to CompleteUpload: {partNumber, ETag} entries.
CompleteLists(m) ==
    UNION {[1..l -> (1..m) \X {MD5(d) : d \in Data}] : l \in 1..m}

\* The session's last call is no longer a Complete that failed validation.
NotRejected(id) == [i \in 1..Len(rejected) |-> IF i = id THEN FALSE ELSE rejected[i]]

\* A call returns: its locals are dropped.
UpReturn(call, res) ==
    [IdleUpCall EXCEPT !.op = call.op, !.id = call.id, !.list = call.list, !.res = res]
UpBegin(op, id) == [IdleUpCall EXCEPT !.op = op, !.id = id]

\* Another program leaves a file at the target path.
TargetExists ==
    /\ ~target.ex
    /\ target' = File(<<"x">>, Perm600)
    /\ UNCHANGED <<uploads, sess, disk, mmu, umu, ucalls, gone, rejected, outsideUp>>

\* InitiateUpload, the whole call under m.mu: the session gets a fresh id,
\* its directory and its metadata.json; ok is FALSE when MkdirAll or the
\* metadata write fails, and then nothing is left.
InitiateUpload(c, perm, ok) ==
    /\ ucalls[c].pc = "idle"
    /\ mmu = "none"
    /\ IF ok
       THEN /\ uploads' = uploads \cup {Len(sess) + 1}
            /\ sess' = Append(sess, [Path |-> "t", Permissions |-> perm,
                                     Parts |-> [n \in PartNos |-> NoPart]])
            /\ disk' = Append(disk, [dir |-> TRUE, parts |-> [n \in PartNos |-> NoFile],
                                     meta |-> [ex |-> TRUE, parts |-> [n \in PartNos |-> NoPart]]])
            /\ umu' = Append(umu, {})
            /\ gone' = Append(gone, FALSE)
            /\ rejected' = Append(rejected, FALSE)
            /\ ucalls' = [ucalls EXCEPT ![c] = UpReturn(UpBegin("initiate", Len(sess) + 1), "ok")]
       ELSE /\ ucalls' = [ucalls EXCEPT ![c] = UpReturn(UpBegin("initiate", None), "iofail")]
            /\ UNCHANGED <<uploads, sess, disk, umu, gone, rejected>>
    /\ UNCHANGED <<target, mmu, outsideUp>>

\* UploadPart: the lookup under m.mu's read lock and the part-number check.
UploadPart(c, id, n, d) ==
    /\ ucalls[c].pc = "idle"
    /\ mmu = "none"
    /\ ucalls' = [ucalls EXCEPT ![c] =
         IF id \notin uploads THEN UpReturn(UpBegin("upload", id), "notfound")
         ELSE IF n < 1 \/ n > 10000 THEN UpReturn(UpBegin("upload", id), "badpart")
         ELSE [UpBegin("upload", id) EXCEPT !.pc = "create", !.n = n, !.d = d]]
    /\ rejected' = NotRejected(id)
    /\ UNCHANGED <<uploads, sess, disk, target, mmu, umu, gone, outsideUp>>

\* os.Create(partPath): the file is made or truncated; it fails when the
\* session's directory is gone.
UploadCreate(c) ==
    /\ ucalls[c].pc = "create"
    /\ IF disk[ucalls[c].id].dir
       THEN /\ disk' = [disk EXCEPT ![ucalls[c].id].parts[ucalls[c].n] = File(<<>>, Perm644)]
            /\ ucalls' = [ucalls EXCEPT ![c].pc = "copy"]
       ELSE /\ ucalls' = [ucalls EXCEPT ![c] = UpReturn(@, "createfail")]
            /\ UNCHANGED disk
    /\ UNCHANGED <<uploads, sess, target, mmu, umu, gone, rejected, outsideUp>>

\* Every call that holds part file n of session id open loses it: the file
\* was unlinked.
Orphaned(calls_, id, ns) ==
    [c \in UpCallers |->
        IF calls_[c].op = "upload" /\ calls_[c].pc = "copy"
           /\ calls_[c].id = id /\ calls_[c].n \in ns
        THEN [calls_[c] EXCEPT !.orphan = TRUE]
        ELSE calls_[c]]

\* io.Copy into the part file (through the descriptor, also when the file
\* was unlinked meanwhile); when the reader fails the part path is removed.
UploadCopy(c, ok) ==
    /\ ucalls[c].pc = "copy"
    /\ LET id == ucalls[c].id
           n == ucalls[c].n
       IN IF ok
          THEN /\ disk' = IF ucalls[c].orphan THEN disk
                          ELSE [disk EXCEPT ![id].parts[n] = File(ucalls[c].d, Perm644)]
               /\ ucalls' = [ucalls EXCEPT ![c].pc = "store"]
          ELSE /\ disk' = [disk EXCEPT ![id].parts[n] = NoFile]
               /\ ucalls' = [Orphaned(ucalls, id, {n}) EXCEPT ![c] = UpReturn(ucalls[c], "copyfail")]
    /\ UNCHANGED <<uploads, sess, target, mmu, umu, gone, rejected, outsideUp>>

\* A store that keeps the record the part number has already.
UploadStoreKeepsFirst(c) ==
    /\ ucalls[c].pc = "store"
    /\ umu[ucalls[c].id] = {}
    /\ sess' = [sess EXCEPT ![ucalls[c].id].Parts[ucalls[c].n] =
                  IF @.has THEN @
                  ELSE [has |-> TRUE, ETag |-> MD5(ucalls[c].d), Size |-> Len(ucalls[c].d)]]
    /\ ucalls' = [ucalls EXCEPT ![c].pc = "marshal"]
    /\ UNCHANGED <<uploads, disk, target, mmu, umu, gone, rejected, outsideUp>>

\* upload.Parts[partNumber] = part, under upload.mu.
UploadStore(c) ==
    /\ ucalls[c].pc = "store"
    /\ umu[ucalls[c].id] = {}
    /\ sess' = [sess EXCEPT ![ucalls[c].id].Parts[ucalls[c].n] =
                  [has |-> TRUE, ETag |-> MD5(ucalls[c].d), Size |-> Len(ucalls[c].d)]]
    /\ ucalls' = [ucalls EXCEPT ![c].pc = "marshal"]
    /\ UNCHANGED <<uploads, disk, target, mmu, umu, gone, rejected, outsideUp>>

\* saveMetadata: json.Marshal(upload) under upload.mu's read lock.
UploadMarshal(c) ==
    /\ ucalls[c].pc = "marshal"
    /\ ucalls' = [ucalls EXCEPT ![c].pc = "writeMeta", ![c].snap = sess[ucalls[c].id].Parts]
    /\ UNCHANGED <<uploads, sess, disk, target, mmu, umu, gone, rejected, outsideUp>>

\* The last two elements of a sequence.
LastTwo(q) == IF Len(q) <= 2 THEN q ELSE SubSeq(q, Len(q) - 1, Len(q))

\* saveMetadata: os.WriteFile(metadataPath, data), and UploadPart returns.
UploadWriteMeta(c) ==
    /\ ucalls[c].pc = "writeMeta"
    /\ IF disk[ucalls[c].id].dir
       THEN /\ disk' = [disk EXCEPT ![ucalls[c].id].meta = [ex |-> TRUE, parts |-> ucalls[c].snap]]
            /\ ucalls' = [ucalls EXCEPT ![c] = UpReturn(@, "ok")]
            /\ okparts' = [okparts EXCEPT ![ucalls[c].id][ucalls[c].n] = LastTwo(Append(@, ucalls[c].d))]
       ELSE /\ ucalls' = [ucalls EXCEPT ![c] = UpReturn(@, "metafail")]
            /\ UNCHANGED <<disk, okparts>>
    /\ UNCHANGED <<uploads, sess, target, mmu, umu, gone, rejected, outsideUpHist>>

\* ListParts.
ListParts(c, id) ==
    /\ ucalls[c].pc = "idle"
    /\ mmu = "none"
    /\ ucalls' = [ucalls EXCEPT ![c] =
         UpReturn(UpBegin("list", id), IF id \in uploads THEN "ok" ELSE "notfound")]
    /\ UNCHANGED <<uploads, sess, disk, target, mmu, umu, gone, rejected, outsideUp>>

\* CompleteUpload: the lookup.
CompleteUpload(c, id, list) ==
    /\ ucalls[c].pc = "idle"
    /\ mmu = "none"
    /\ ucalls' = [ucalls EXCEPT ![c] =
         IF id \notin uploads THEN UpReturn(UpBegin("complete", id), "notfound")
         ELSE [UpBegin("complete", id) EXCEPT !.pc = "validate", !.list = list]]
    /\ UNCHANGED <<uploads, sess, disk, target, mmu, umu, gone, rejected, outsideUp>>

\* "Validate all parts are present": every entry names a stored part with
\* the stored ETag.
Validated(list, parts) ==
    \A i \in 1..Len(list) : parts[list[i][1]].has /\ parts[list[i][1]].ETag = list[i][2]

\* sort.Slice(parts, by part number): an insertion sort of the entries.
RECURSIVE SortParts(_)
SortParts(list) ==
    IF Len(list) <= 1 THEN list
    ELSE LET rest == SortParts(Tail(list))
             lo == SelectSeq(rest, LAMBDA e : e[1] < Head(list)[1])
             hi == SelectSeq(rest, LAMBDA e : ~(e[1] < Head(list)[1]))
         IN lo \o <<Head(list)>> \o hi

\* CompleteUpload takes upload.mu's read lock (kept to its return),
\* validates and sorts the list.
CompleteValidate(c) ==
    /\ ucalls[c].pc = "validate"
    /\ IF Validated(ucalls[c].list, sess[ucalls[c].id].Parts)
       THEN /\ umu' = [umu EXCEPT ![ucalls[c].id] = @ \cup {c}]
            /\ ucalls' = [ucalls EXCEPT ![c].pc = "open", ![c].list = SortParts(@)]
            /\ UNCHANGED rejected
       ELSE /\ ucalls' = [ucalls EXCEPT ![c] = UpReturn(@, "invalid")]
            /\ rejected' = [rejected EXCEPT ![ucalls[c].id] = TRUE]
            /\ UNCHANGED umu
    /\ UNCHANGED <<uploads, sess, disk, target, mmu, gone, outsideUp>>

\* os.OpenFile(path, O_CREATE|O_WRONLY|O_TRUNC, upload.Permissions): a new
\* file gets the permissions (the umask taken as 0), an existing file is
\* truncated and keeps its mode.
OpenTruncate(f, perm) == IF f.ex THEN File(<<>>, f.mode) ELSE File(<<>>, perm)

CompleteOpen(c) ==
    /\ ucalls[c].pc = "open"
    /\ target' = OpenTruncate(target, sess[ucalls[c].id].Permissions)
    /\ ucalls' = [ucalls EXCEPT ![c].pc = "concat", ![c].k = 1, ![c].pre = target]
    /\ UNCHANGED <<uploads, sess, disk, mmu, umu, gone, rejected, outsideUp>>

\* One round of "Concatenate all parts in order": the part file is opened
\* and copied to the end of the final file.
CompleteCopy(c) ==
    /\ ucalls[c].pc = "concat"
    /\ ucalls[c].k <= Len(ucalls[c].list)
    /\ LET f == disk[ucalls[c].id].parts[ucalls[c].list[ucalls[c].k][1]]
       IN IF f.ex
          THEN /\ target' = [target EXCEPT !.bytes = @ \o f.bytes]
               /\ ucalls' = [ucalls EXCEPT ![c].k = @ + 1]
               /\ UNCHANGED <<umu, rejected>>
          ELSE /\ ucalls' = [ucalls EXCEPT ![c] = UpReturn(@, "openfail")]
               /\ umu' = [umu EXCEPT ![ucalls[c].id] = @ \ {c}]
               /\ rejected' = NotRejected(ucalls[c].id)
               /\ UNCHANGED target
    /\ UNCHANGED <<uploads, sess, disk, mmu, gone, outsideUp>>

\* AbortUpload called by a client.
AbortUpload(c, id) ==
    /\ ucalls[c].pc = "idle"
    /\ ucalls' = [ucalls EXCEPT ![c] = [UpBegin("abort", id) EXCEPT !.pc = "abLock"]]
    /\ UNCHANGED <<uploads, sess, disk, target, mmu, umu, gone, rejected, outsideUp>>

\* "Clean up upload directory and metadata": CompleteUpload calls AbortUpload.
CompleteCleanup(c) ==
    /\ ucalls[c].pc = "concat"
    /\ ucalls[c].k > Len(ucalls[c].list)
    /\ ucalls' = [ucalls EXCEPT ![c].pc = "abLock"]
    /\ UNCHANGED <<uploads, sess, disk, target, mmu, umu, gone, rejected, outsideUp>>

\* The return of an AbortUpload with error err ("" for nil): a client's call
\* returns it; CompleteUpload drops it, returns nil and releases upload.mu.
AbortReturn(c, err) ==
    /\ ucalls' = [ucalls EXCEPT ![c] =
         UpReturn(@, IF ucalls[c].op = "complete" \/ err = "" THEN "ok" ELSE err)]
    /\ umu' = IF ucalls[c].op = "complete"
              THEN [umu EXCEPT ![ucalls[c].id] = @ \ {c}] ELSE umu
    /\ gone' = IF ucalls[c].op = "complete" \/ err = ""
               THEN [gone EXCEPT ![ucalls[c].id] = TRUE] ELSE gone
    /\ rejected' = NotRejected(ucalls[c].id)

\* AbortUpload takes m.mu and looks the session up.
AbortLock(c) ==
    /\ ucalls[c].pc = "abLock"
    /\ mmu = "none"
    /\ IF ucalls[c].id \in uploads
       THEN /\ mmu' = c
            /\ ucalls' = [ucalls EXCEPT ![c].pc = "abUnlink"]
            /\ UNCHANGED <<umu, gone, rejected>>
       ELSE /\ AbortReturn(c, "notfound")
            /\ UNCHANGED mmu
    /\ UNCHANGED <<uploads, sess, disk, target, outsideUp>>

\* os.RemoveAll(uploadDir), first half: the entries the directory holds are
\* unlinked.
AbortUnlink(c) ==
    /\ ucalls[c].pc = "abUnlink"
    /\ disk' = [disk EXCEPT ![ucalls[c].id].parts = [n \in PartNos |-> NoFile],
                            ![ucalls[c].id].meta = NoMeta]
    /\ ucalls' = [Orphaned(ucalls, ucalls[c].id, PartNos) EXCEPT ![c].pc = "abRmdir"]
    /\ UNCHANGED <<uploads, sess, target, mmu, umu, gone, rejected, outsideUp>>

\* The directory holds no entry.
EmptyDir(dd) == ~dd.meta.ex /\ \A n \in PartNos : ~dd.parts[n].ex

\* os.RemoveAll, second half: the directory itself is removed, which fails
\* when an entry was made meanwhile; on success the session leaves the
\* index.  Then m.mu is released.
AbortRmdir(c) ==
    /\ ucalls[c].pc = "abRmdir"
    /\ mmu' = "none"
    /\ IF EmptyDir(disk[ucalls[c].id])
       THEN /\ disk' = [disk EXCEPT ![ucalls[c].id].dir = FALSE]
            /\ uploads' = uploads \ {ucalls[c].id}
            /\ AbortReturn(c, "")
       ELSE /\ AbortReturn(c, "removefail")
            /\ UNCHANGED <<disk, uploads>>
    /\ UNCHANGED <<sess, target, outsideUp>>

\* The calls of client c, with part numbers up to m.
UpCall(c, m) ==
    \/ \E perm \in {Perm644, Perm666}, ok \in BOOLEAN :
          Len(sess) < MaxSessions /\ InitiateUpload(c, perm, ok)
    \/ \E id \in Sessions, n \in 0..m, d \in Data : UploadPart(c, id, n, d)
    \/ UploadCreate(c)
    \/ \E ok \in BOOLEAN : UploadCopy(c, ok)
    \/ UploadStore(c)
    \/ UploadMarshal(c)
    \/ UploadWriteMeta(c)
    \/ \E id \in Sessions : ListParts(c, id)
    \/ \E id \in Sessions, list \in CompleteLists(m) : CompleteUpload(c, id, list)
    \/ CompleteValidate(c)
    \/ CompleteOpen(c)
    \/ CompleteCopy(c)
    \/ CompleteCleanup(c)
    \/ \E id \in Sessions : AbortUpload(c, id)
    \/ AbortLock(c)
    \/ AbortUnlink(c)
    \/ AbortRmdir(c)

\* Concurrent clients of the manager.
NextUpload ==
    \/ TargetExists
    \/ \E c \in UpCallers : UpCall(c, MaxConcPartNo)

SpecUpload == Init /\ [][NextUpload]_vars

\* One client, one call at a time.
NextUploadSeq ==
    \/ TargetExists
    \/ UpCall("u1", MaxPartNo)

SpecUploadSeq == Init /\ [][NextUploadSeq]_vars

(***************************************************************************)
(* One WebSocket connection (websocket.go:77-245, 1750-1878).              *)
(***************************************************************************)
\* The frames that start or end a stream; the others are log, response and
\* ping frames.
ControlFrames == {"started", "done", "error"}

\* WsLock without the mutex: the goroutine goes on to write at once.
WsLockSkipped(g) ==
    /\ wsG[g].pc = "lock"
    /\ wsG' = [wsG EXCEPT ![g].pc = "write"]
    /\ UNCHANGED <<wsMu, wsInWrite, wsSent, activeStreams, wsCancel, wsDone, wsAttached, outsideWS>>

\* connWriteMu.Lock()
WsLock(g) ==
    /\ wsG[g].pc = "lock"
    /\ wsMu = NoG
    /\ wsMu' = g
    /\ wsG' = [wsG EXCEPT ![g].pc = "write"]
    /\ UNCHANGED <<wsInWrite, wsSent, activeStreams, wsCancel, wsDone, wsAttached, outsideWS>>

\* conn.WriteJSON is entered
WsWriteJSON(g) ==
    /\ wsG[g].pc = "write"
    /\ wsInWrite' = wsInWrite \cup {<<g, wsG[g].kind>>}
    /\ wsG' = [wsG EXCEPT ![g].pc = "inwrite"]
    /\ UNCHANGED <<wsMu, wsSent, activeStreams, wsCancel, wsDone, wsAttached, outsideWS>>

\* and returns, with an error or without.
WsWritten(g, ok) ==
    /\ wsG[g].pc = "inwrite"
    /\ wsInWrite' = wsInWrite \ {<<g, wsG[g].kind>>}
    /\ wsSent' = [wsSent EXCEPT ![g] =
          IF g[1] = "stream" /\ wsG[g].kind \in ControlFrames THEN Append(@, wsG[g].kind) ELSE @]
    /\ wsG' = [wsG EXCEPT ![g].pc = "unlock", ![g].err = ~ok]
    /\ UNCHANGED <<wsMu, activeStreams, wsCancel, wsDone, wsAttached, outsideWS>>

\* connWriteMu.Unlock(); only the read loop looks at the error, and only at
\* that of an operation's response: it leaves the loop.
WsUnlock(g) ==
    /\ wsG[g].pc = "unlock"
    /\ wsMu' = NoG
    /\ wsG' = [wsG EXCEPT ![g] =
         IF g = ReadG /\ @.kind = "response" /\ @.err THEN WsAt("cleanup") ELSE WsAt(@.next)]
    /\ UNCHANGED <<wsInWrite, wsSent, activeStreams, wsCancel, wsDone, wsAttached, outsideWS>>

\* The read loop reads an ordinary operation, handles it and is to send
\* the response.
ReadOperation ==
    /\ wsG[ReadG].pc = "read"
    /\ wsG' = [wsG EXCEPT ![ReadG] = Writing("response", "read")]
    /\ UNCHANGED <<wsMu, wsInWrite, wsSent, activeStreams, wsCancel, wsDone, wsAttached, outsideWS>>

\* process:logs:stream:start without an identifier.
ReadStartNoIdentifier ==
    /\ wsG[ReadG].pc = "read"
    /\ wsG' = [wsG EXCEPT ![ReadG] = Writing("error", "read")]
    /\ UNCHANGED <<wsMu, wsInWrite, wsSent, activeStreams, wsCancel, wsDone, wsAttached, outsideWS>>

\* process:logs:stream:start for request id m: refused while the id has an
\* entry; else stream i is registered under it with a new cancel channel.
ReadStreamStart(m, i) ==
    /\ wsG[ReadG].pc = "read"
    /\ IF activeStreams[m] # None
       THEN /\ wsG' = [wsG EXCEPT ![ReadG] = Writing("error", "read")]
            /\ UNCHANGED <<activeStreams, wsCancel>>
       ELSE /\ wsCancel[i] = "unmade"
            /\ \A j \in StreamIds : j < i => wsCancel[j] # "unmade"
            /\ activeStreams' = [activeStreams EXCEPT ![m] = i]
            /\ wsCancel' = [wsCancel EXCEPT ![i] = "open"]
            /\ wsG' = [wsG EXCEPT ![ReadG] = Writing("started", "spawn")]
    /\ UNCHANGED <<wsMu, wsInWrite, wsSent, wsDone, wsAttached, outsideWS>>

\* "go h.streamProcessLogs(...)": the stream made last starts to run.
ReadSpawn ==
    /\ wsG[ReadG].pc = "spawn"
    /\ LET i == CHOOSE i \in StreamIds :
                  wsCancel[i] # "unmade" /\ \A j \in StreamIds : j > i => wsCancel[j] = "unmade"
       IN wsG' = [wsG EXCEPT ![ReadG] = WsAt("read"), ![StreamG(i)] = WsAt("attach")]
    /\ UNCHANGED <<wsMu, wsInWrite, wsSent, activeStreams, wsCancel, wsDone, wsAttached, outsideWS>>

\* close(ch): closing a channel that is closed already is a fault.
Closed(ch) == IF ch = "open" THEN "closed" ELSE "closed twice"

\* process:logs:stream:stop that leaves the entry of m in the map.
ReadStreamStopKeepsEntry(m) ==
    /\ wsG[ReadG].pc = "read"
    /\ IF activeStreams[m] # None
       THEN wsCancel' = [wsCancel EXCEPT ![activeStreams[m]] = Closed(@)]
       ELSE UNCHANGED wsCancel
    /\ wsG' = [wsG EXCEPT ![ReadG] = Writing("done", "read")]
    /\ UNCHANGED <<wsMu, wsInWrite, wsSent, activeStreams, wsDone, wsAttached, outsideWS>>

\* process:logs:stream:stop for request id m.
ReadStreamStop(m) ==
    /\ wsG[ReadG].pc = "read"
    /\ IF activeStreams[m] # None
       THEN /\ wsCancel' = [wsCancel EXCEPT ![activeStreams[m]] = Closed(@)]
            /\ activeStreams' = [activeStreams EXCEPT ![m] = None]
       ELSE UNCHANGED <<activeStreams, wsCancel>>
    /\ wsG' = [wsG EXCEPT ![ReadG] = Writing("done", "read")]
    /\ UNCHANGED <<wsMu, wsInWrite, wsSent, wsDone, wsAttached, outsideWS>>

\* conn.ReadJSON fails: the loop is left.
ReadError ==
    /\ wsG[ReadG].pc = "read"
    /\ wsG' = [wsG EXCEPT ![ReadG] = WsAt("cleanup")]
    /\ UNCHANGED <<wsMu, wsInWrite, wsSent, activeStreams, wsCancel, wsDone, wsAttached, outsideWS>>

\* "Clean up active streams": the cancel channel of every entry is closed;
\* then the deferred close(done).
ReadCleanup ==
    /\ wsG[ReadG].pc = "cleanup"
    /\ wsCancel' = [i \in StreamIds |->
          IF \E m \in MsgIds : activeStreams[m] = i THEN Closed(wsCancel[i]) ELSE wsCancel[i]]
    /\ wsDone' = TRUE
    /\ wsG' = [wsG EXCEPT ![ReadG] = WsAt("exit")]
    /\ UNCHANGED <<wsMu, wsInWrite, wsSent, activeStreams, wsAttached, outsideWS>>

\* The ping goroutine's ticker fires: conn.WriteControl(PingMessage) is
\* entered; connWriteMu is not taken.
PingTick ==
    /\ wsG[PingG].pc = "wait"
    /\ wsInWrite' = wsInWrite \cup {<<PingG, "ping">>}
    /\ wsG' = [wsG EXCEPT ![PingG] = [WsAt("inping") EXCEPT !.kind = "ping"]]
    /\ UNCHANGED <<wsMu, wsSent, activeStreams, wsCancel, wsDone, wsAttached, outsideWS>>

\* WriteControl returns; on an error the ping goroutine ends.
PingWritten(ok) ==
    /\ wsG[PingG].pc = "inping"
    /\ wsInWrite' = wsInWrite \ {<<PingG, "ping">>}
    /\ wsG' = [wsG EXCEPT ![PingG] = WsAt(IF ok THEN "wait" ELSE "exit")]
    /\ UNCHANGED <<wsMu, wsSent, activeStreams, wsCancel, wsDone, wsAttached, outsideWS>>

\* case <-done
PingStop ==
    /\ wsG[PingG].pc = "wait"
    /\ wsDone
    /\ wsG' = [wsG EXCEPT ![PingG] = WsAt("exit")]
    /\ UNCHANGED <<wsMu, wsInWrite, wsSent, activeStreams, wsCancel, wsDone, wsAttached, outsideWS>>

\* streamProcessLogs calls StreamProcessOutput: the process is not found
\* and the error frame is to be sent, or the history is to be written
\* through the log writer.
StreamBegin(i, found) ==
    /\ wsG[StreamG(i)].pc = "attach"
    /\ wsG' = [wsG EXCEPT ![StreamG(i)] =
         IF found THEN Writing("log", "attached") ELSE Writing("error", "exit")]
    /\ UNCHANGED <<wsMu, wsInWrite, wsSent, activeStreams, wsCancel, wsDone, wsAttached, outsideWS>>

\* StreamProcessOutput attaches the writer and starts the keepalive goroutine.
StreamAttached(i) ==
    /\ wsG[StreamG(i)].pc = "attached"
    /\ wsAttached' = wsAttached \cup {i}
    /\ wsG' = [wsG EXCEPT ![StreamG(i)] = WsAt("select"), ![KeepG(i)] = WsAt("wait")]
    /\ UNCHANGED <<wsMu, wsInWrite, wsSent, activeStreams, wsCancel, wsDone, outsideWS>>

\* case <-cancel that returns without the frame.
StreamCancelledSilent(i) ==
    /\ wsG[StreamG(i)].pc = "select"
    /\ wsCancel[i] = "closed"
    /\ wsAttached' = wsAttached \ {i}
    /\ wsG' = [wsG EXCEPT ![StreamG(i)] = WsAt("exit")]
    /\ UNCHANGED <<wsMu, wsInWrite, wsSent, activeStreams, wsCancel, wsDone, outsideWS>>

\* case <-cancel: the writer is detached and the done frame is to be sent.
StreamCancelled(i) ==
    /\ wsG[StreamG(i)].pc = "select"
    /\ wsCancel[i] = "closed"
    /\ wsAttached' = wsAttached \ {i}
    /\ wsG' = [wsG EXCEPT ![StreamG(i)] = Writing("done", "exit")]
    /\ UNCHANGED <<wsMu, wsInWrite, wsSent, activeStreams, wsCancel, wsDone, outsideWS>>

\* case <-connectionDone: the writer is detached, no frame.
StreamConnectionDone(i) ==
    /\ wsG[StreamG(i)].pc = "select"
    /\ wsDone
    /\ wsAttached' = wsAttached \ {i}
    /\ wsG' = [wsG EXCEPT ![StreamG(i)] = WsAt("exit")]
    /\ UNCHANGED <<wsMu, wsInWrite, wsSent, activeStreams, wsCancel, wsDone, outsideWS>>

\* case <-ticker.C: the process is looked up; unless it is found running
\* the writer is detached and the done frame is to be sent.
StreamPoll(i, running) ==
    /\ wsG[StreamG(i)].pc = "select"
    /\ IF running
       THEN UNCHANGED <<wsG, wsAttached>>
       ELSE /\ wsAttached' = wsAttached \ {i}
            /\ wsG' = [wsG EXCEPT ![StreamG(i)] = Writing("done", "exit")]
    /\ UNCHANGED <<wsMu, wsInWrite, wsSent, activeStreams, wsCancel, wsDone, outsideWS>>

\* The keepalive goroutine of an attach: while the process is running it
\* writes through the log writer, else it ends.
KeepaliveTick(i, running) ==
    /\ wsG[KeepG(i)].pc = "wait"
    /\ wsG' = [wsG EXCEPT ![KeepG(i)] =
         IF running THEN Writing("log", "wait") ELSE WsAt("exit")]
    /\ UNCHANGED <<wsMu, wsInWrite, wsSent, activeStreams, wsCancel, wsDone, wsAttached, outsideWS>>

\* A reader goroutine of the process hands a chunk to an attached writer:
\* websocketLogWriter.Write.
LogWrite ==
    /\ wsG[ProdG].pc = "idle"
    /\ wsAttached # {}
    /\ wsG' = [wsG EXCEPT ![ProdG] = Writing("log", "idle")]
    /\ UNCHANGED <<wsMu, wsInWrite, wsSent, activeStreams, wsCancel, wsDone, wsAttached, outsideWS>>

WsWrite(g) ==
    \/ WsLock(g)
    \/ WsWriteJSON(g)
    \/ \E ok \in BOOLEAN : WsWritten(g, ok)
    \/ WsUnlock(g)

ReadLoop ==
    \/ ReadOperation
    \/ ReadStartNoIdentifier
    \/ \E m \in MsgIds, i \in StreamIds : ReadStreamStart(m, i)
    \/ ReadSpawn
    \/ \E m \in MsgIds : ReadStreamStop(m)
    \/ ReadError
    \/ ReadCleanup

Pinger ==
    \/ PingTick
    \/ \E ok \in BOOLEAN : PingWritten(ok)
    \/ PingStop

Streamer(i) ==
    \/ \E found \in BOOLEAN : StreamBegin(i, found)
    \/ StreamAttached(i)
    \/ StreamCancelled(i)
    \/ StreamConnectionDone(i)
    \/ \E running \in BOOLEAN : StreamPoll(i, running)
    \/ \E running \in BOOLEAN : KeepaliveTick(i, running)

NextWS ==
    \/ \E g \in WsGs : WsWrite(g)
    \/ ReadLoop
    \/ Pinger
    \/ \E i \in StreamIds : Streamer(i)
    \/ LogWrite

SpecWS == Init /\ [][NextWS]_vars

\* Every goroutine that is running goes on: a write on the connection
\* returns, the mutex is handed to each goroutine waiting for it, and a
\* select with a closed channel among its cases takes such a case at last.
SpecWSFair ==
    /\ SpecWS
    /\ WF_vars(\E g \in WsGs : WsWriteJSON(g) \/ (\E ok \in BOOLEAN : WsWritten(g, ok)) \/ WsUnlock(g))
    /\ \A i \in StreamIds :
          /\ SF_vars(WsLock(StreamG(i)))
          /\ WF_vars(\/ \E found \in BOOLEAN : StreamBegin(i, found)
                     \/ StreamAttached(i)
                     \/ StreamCancelled(i)
                     \/ StreamConnectionDone(i))

(***************************************************************************)
(* Claims about the supervisor.                                            *)
(***************************************************************************)
\* No Stop/Kill call is in flight on record r.
NoCallOn(r) == \A c \in Callers : calls[c].pc = "idle" \/ calls[c].rec # r

\* C1: in every reachable state of every record,
\* restart-count <= max-restarts <= 25, whatever max-restarts was passed.
C1_RestartCountBounded ==
    \A r \in RecIds :
        /\ recs[r].RestartCount <= recs[r].MaxRestarts
        /\ recs[r].MaxRestarts <= MaxRestartsLimit

\* C2: once a Stop (Kill) called on a running record has returned nil and
\* the wait goroutine has finished, the record's status is the one that
\* call set: stopped (killed), never failed, completed or running.
C2_StopKillStatusFinal ==
    \A r \in RecIds :
        (wait[r].pc = "done" /\ ctl[r].armed /\ NoCallOn(r))
            => recs[r].Status = ctl[r].last

\* C7: the completion callback is called at most once per spawn and only
\* at the end: once it was called, no restart attempt follows (the restart
\* count, the number of children started and the finished wait goroutine
\* stay as they are).
C7_CallbackOnlyAtEnd ==
    [][\A r \in RecIds :
          cbs[r] # <<>> =>
              /\ cbs'[r] = cbs[r]
              /\ wait'[r] = wait[r]
              /\ runs'[r] = runs[r]
              /\ recs'[r].RestartCount = recs[r].RestartCount]_vars

\* C7's case: the callback was called after a failure that was retried.
C7_Witness ==
    \E r \in RecIds : cbs[r] # <<>> /\ recs[r].RestartCount >= 1 /\ runs[r] >= 2

\* C8: for a record that was restarted, lookup by the agent-PID its spawn
\* returned gives that record at every point, and the index (hence the
\* list) holds the record exactly once.
C8_AgentPidStable ==
    \A r \in RecIds :
        runs[r] >= 2 =>
            /\ GetProcessByIdentifier(<<"pid", recs[r].PID>>) = r
            /\ Cardinality({p \in Pids : processes[p] = r}) = 1

\* The wait goroutine of r is between two of its updates of the record.
WaitBusy(r) == wait[r].pc \notin {"wait", "respawn", "done"}

\* C9: the completion time is set iff the status is completed, failed,
\* stopped or killed (looked at while the wait goroutine is not in the
\* middle of its own updates of the record).
C9_CompletedAtIffTerminal ==
    \A r \in RecIds :
        ~WaitBusy(r) => ((recs[r].CompletedAt # None) <=> (recs[r].Status \in Terminal))

\* C15: a Stop or Kill called on a record that is not running (its status
\* is completed, failed, stopped or killed) returns nil and leaves the
\* record's status and exit code as they were.  Stop's refusal of such a
\* record is the result "notrunning"; a Kill in flight on one has run FALSE.
C15_StopKillOnFinishedIsNoOp ==
    [][\A c \in Callers :
          calls'[c].n = calls[c].n + 1 =>
              /\ calls'[c].res # "notrunning"
              /\ (calls[c].pc # "idle" /\ ~calls[c].run) =>
                    /\ calls'[c].res = "ok"
                    /\ recs'[calls[c].rec].Status = recs[calls[c].rec].Status
                    /\ recs'[calls[c].rec].ExitCode = recs[calls[c].rec].ExitCode]_vars

\* Every restart of r so far got its child started.
RestartsStarted(r) == \A i \in 1..Len(logs[r]) : logs[r][i][1] # "restartfail"

\* C16: a command that failed on every run, spawned with restart-on-failure
\* and max-restarts M >= 0, was run exactly M+1 times when its supervision
\* is over, and ends with status failed, restart-count M and the exit code
\* of its last run.
C16_AlwaysFailingRunsMPlus1 ==
    \A r \in RecIds :
        (/\ wait[r].pc = "done"
         /\ recs[r].RestartOnFailure /\ recs[r].MaxRestarts >= 0
         /\ \A i \in 1..Len(wait[r].outs) : wait[r].outs[i] = "fail"
         /\ RestartsStarted(r))
        => /\ runs[r] = recs[r].MaxRestarts + 1
           /\ Len(wait[r].outs) = recs[r].MaxRestarts + 1
           /\ recs[r].Status = StatusFailed
           /\ recs[r].RestartCount = recs[r].MaxRestarts
           /\ recs[r].ExitCode = ExitCodeOf("fail")

\* C16's case: a record with max-restarts 1 whose two runs both failed.
C16_Witness ==
    \E r \in RecIds :
        /\ wait[r].pc = "done" /\ recs[r].RestartOnFailure /\ recs[r].MaxRestarts = 1
        /\ wait[r].outs = <<"fail", "fail">>

\* The child record r awaits has exited with code 0 after its k earlier
\* runs all failed (k <= max-restarts).
SucceededAfterFailures(r) ==
    /\ r \in RecIds
    /\ recs[r].RestartOnFailure
    /\ wait[r].pc = "wait"
    /\ ostab[wait[r].pid].st = "zombie" /\ ostab[wait[r].pid].out = "ok"
    /\ \A i \in 1..Len(wait[r].outs) : wait[r].outs[i] = "fail"
    /\ Len(wait[r].outs) <= recs[r].MaxRestarts

\* Record r is finished as completed with exit code 0, after k failed runs
\* and one successful run, with restart-count k.
CompletedAfterFailures(r) ==
    /\ r \in RecIds
    /\ wait[r].pc = "done"
    /\ recs[r].Status = StatusCompleted /\ recs[r].ExitCode = 0
    /\ wait[r].outs[Len(wait[r].outs)] = "ok"
    /\ recs[r].RestartCount = Len(wait[r].outs) - 1
    /\ runs[r] = Len(wait[r].outs)

\* C17: a command spawned with restart-on-failure that fails on its first k
\* runs (k <= max-restarts) and then exits 0 eventually ends with status
\* completed, exit code 0 and restart-count k, and from then on stays so:
\* it is not run again.
C17_EventualSuccessCompletes ==
    \A r \in 1..MaxSpawns :
        SucceededAfterFailures(r) ~> [](CompletedAfterFailures(r))

\* C17's case: a record completed by its second run, after one failure.
C17_Witness ==
    \E r \in RecIds : CompletedAfterFailures(r) /\ wait[r].outs = <<"fail", "ok">>

\* C18: the index entry of the agent-PID a spawn returned holds that
\* spawn's record for ever: no later spawn, restart or exit removes or
\* replaces it.
C18_RecordStaysInIndex ==
    \A r \in RecIds : processes[recs[r].PID] = r

\* C21: an ExecuteProcess with waitForCompletion and a timeout T > 0 whose
\* child has not completed when the wait ends returns the timeout error,
\* and that return leaves the child as it was: the record (its status
\* running) and the index are unchanged and no process is signalled.
C21_TimeoutLeavesChildRunning ==
    [][(exec.pc = "select" /\ exec'.pc # "select") =>
          /\ ~CallbackSending => exec'.res = "timeout"
          /\ exec'.res = "timeout" =>
                /\ recs' = recs /\ ostab' = ostab /\ processes' = processes]_vars

\* C21's case: the call has returned the timeout error while the child runs.
C21_Witness ==
    /\ exec.pc = "returned" /\ exec.res = "timeout"
    /\ \E r \in RecIds :
          /\ recs[r].PID = exec.pid /\ processes[exec.pid] = r
          /\ recs[r].Status = StatusRunning
          /\ ostab[recs[r].ProcessPid] = RunProc

(***************************************************************************)
(* Claims about the log fan-out.                                           *)
(***************************************************************************)
\* The chunks of the combined buffer of r among what sink s was written, in
\* the order written.
Delivered(s, r) ==
    LET InLogs(w) == \E i \in 1..Len(logs[r]) : logs[r][i] = w[2]
        kept == SelectSeq(sinkData[s], InLogs)
    IN [i \in 1..Len(kept) |-> kept[i][2]]

\* Sink s is in the writer set of record r.
Attached(s, r) == \E i \in 1..Len(logWriters[r]) : logWriters[r][i] = s

\* C3: a sink attached with Stream was written the combined-buffer history
\* followed by every later chunk, each exactly once and in order: while it
\* is attached (and no restart notice is half-way out) the chunks written
\* to it are the combined buffer.
C3_SinkSeesHistoryThenChunks ==
    \A s \in Sinks : \A r \in RecIds :
        (streams[s].pc = "attached" /\ streams[s].rec = r /\ Attached(s, r)
            /\ wait[r].pc # "notify")
        => Delivered(s, r) = logs[r]

\* C14: after RemoveLogWriter(id, sink) has returned, nothing more is
\* written to the sink: no output chunk, no notice and no keepalive line.
C14_NothingAfterRemove ==
    [][\A s \in Sinks :
          streams[s].pc = "removed" => sinkData'[s] = sinkData[s]]_vars

(***************************************************************************)
(* Claims about the port monitor.                                          *)
(***************************************************************************)
\* How many of the goroutines the last tick started call callback cb of
\* pid p with port q.
Invocations(p, cb, q) ==
    Cardinality({k \in 1..Len(fired) : fired[k] = <<p, cb, q>>})

\* C5: at a tick, for each pid scanned (that an earlier tick scanned too),
\* every callback registered for the pid is invoked exactly once for each
\* port of this tick's scan that the previous tick's scan of the pid did
\* not have, and not at all for any other port.
C5_CallbackOncePerNewPort ==
    \A p \in NetPids :
        (ticked[p].ok /\ ticked[p].hadPrev) =>
            \A q \in Ports : \A i \in 1..Len(ticked[p].cbs) :
                Invocations(p, ticked[p].cbs[i], q)
                    = IF q \in ticked[p].new \ ticked[p].prev THEN 1 ELSE 0

\* No Unregister call is in progress and no monitor goroutine is left: the
\* scanner is out of the running state and no tick will scan.
MonitorOff ==
    /\ \A c \in NetCallers : ncalls[c].pc = "idle"
    /\ ~isMonitoring
    /\ \A g \in 1..Len(mon) : mon[g] = "exit"

\* C19: when the last registered pid has been unregistered, the Unregister
\* call returns and the monitor loop stops (unless a pid is registered
\* again), whatever the monitor goroutine was doing at the time: waiting for
\* a tick, running a tick, or not yet marked running.
C19_LastUnregisterStopsMonitor ==
    (nregs > 0 /\ monitoredPIDs = {}) ~> (monitoredPIDs # {} \/ MonitorOff)

\* A monitor goroutine is in its loop.
MonitorRunning == \E g \in 1..Len(mon) : mon[g] \in {"loop", "tick"}

\* C20: whenever a pid is registered the scanner is running or becomes
\* running: a monitor goroutine gets into its loop, whose ticks scan the
\* pid (unless the pid is unregistered first).
C20_RegisteredIsMonitored ==
    \A p \in NetPids :
        (p \in monitoredPIDs) ~> (p \notin monitoredPIDs \/ MonitorRunning)

(***************************************************************************)
(* Claims about the upload manager.                                        *)
(***************************************************************************)
\* The list names every stored part of the session once, with its ETag.
CorrectList(list, parts) ==
    /\ Validated(list, parts)
    /\ \A n \in PartNos :
          parts[n].has => Cardinality({i \in 1..Len(list) : list[i][1] = n}) = 1

\* The bytes whose MD5 is the ETag.
BytesOf(etag) == CHOOSE d \in Data \cup {<<>>} : MD5(d) = etag

RECURSIVE Concatenation(_, _)
\* The bytes of the stored parts from number n on, in ascending order.
Concatenation(parts, n) ==
    IF n > MaxPartNo THEN <<>>
    ELSE (IF parts[n].has THEN BytesOf(parts[n].ETag) ELSE <<>>)
         \o Concatenation(parts, n + 1)

\* C4: when a client that made its calls one after the other has got nil
\* from Complete with the correct parts list, the target file holds the
\* concatenation of the parts in ascending part-number order and its
\* permission bits are the session's.
C4_CompleteYieldsFile ==
    \A c \in UpCallers :
        (ucalls[c].pc = "idle" /\ ucalls[c].op = "complete" /\ ucalls[c].res = "ok"
            /\ CorrectList(ucalls[c].list, sess[ucalls[c].id].Parts))
        => /\ target.ex
           /\ target.bytes = Concatenation(sess[ucalls[c].id].Parts, 1)
           /\ target.mode = sess[ucalls[c].id].Permissions

\* C10: once an Abort or a Complete of a session has returned nil, the
\* session is not in the index (so every later call for it fails with
\* upload-not-found) and no part file of it is on disk.
C10_GoneStaysGone ==
    \A id \in 1..Len(sess) :
        gone[id] => /\ id \notin uploads
                    /\ \A n \in PartNos : ~disk[id].parts[n].ex

\* The step is the return of a Complete of caller c that failed validation.
RejectedReturn(c) ==
    /\ ucalls[c].op = "complete" /\ ucalls[c].pc = "validate"
    /\ ucalls'[c].pc = "idle" /\ ucalls'[c].res = "invalid"

\* The step is the return of a Complete with the correct list, or of an
\* Abort, that caller c made right after a Complete of the session failed
\* validation.
ReturnAfterRejected(c) ==
    /\ ucalls[c].pc # "idle" /\ ucalls'[c].pc = "idle"
    /\ ucalls[c].op \in {"complete", "abort"}
    /\ ucalls[c].id \in 1..Len(rejected)
    /\ rejected[ucalls[c].id]
    /\ ucalls[c].op = "complete" => CorrectList(ucalls[c].list, sess[ucalls[c].id].Parts)

\* The part of C11 about the failing call itself: a Complete that fails
\* because a listed part is missing or an ETag differs leaves the index, the
\* session's parts, its directory and the target file as they were.
C11_RejectedCompleteChangesNothing ==
    [][\A c \in UpCallers :
          RejectedReturn(c) =>
              /\ uploads' = uploads /\ ucalls[c].id \in uploads
              /\ sess' = sess /\ disk' = disk /\ target' = target]_vars

\* C11: a Complete that fails because a listed part is missing or an ETag
\* differs from the stored one changes nothing (index, parts, part files,
\* metadata and target stay as they were), and the Complete with the
\* correct list, or the Abort, that the client makes next succeeds.
C11_RejectedCompleteRecoverable ==
    [][\A c \in UpCallers :
          /\ RejectedReturn(c) =>
                /\ uploads' = uploads /\ ucalls[c].id \in uploads
                /\ sess' = sess /\ disk' = disk /\ target' = target
          /\ ReturnAfterRejected(c) => ucalls'[c].res = "ok"]_vars

\* No UploadPart for part n of session id is in progress, and no Abort is
\* removing the session's directory.
PartQuiet(id, n) ==
    \A c \in UpCallers :
        ucalls[c].pc = "idle"
        \/ ucalls[c].id # id
        \/ (ucalls[c].op = "upload" /\ ucalls[c].n # n)
        \/ ucalls[c].pc \in {"validate", "open", "concat", "abLock"}

\* C12: for every session in the index and every stored part record N, the
\* recorded ETag is the lowercase-hex MD5 of the current contents of the
\* session's part-N file, whenever no UploadPart for N is in progress.
C12_ETagIsMD5OfPartFile ==
    \A id \in uploads : \A n \in PartNos :
        (sess[id].Parts[n].has /\ PartQuiet(id, n)) =>
            /\ disk[id].parts[n].ex
            /\ MD5(disk[id].parts[n].bytes) = sess[id].Parts[n].ETag

RECURSIVE ListedBytes(_, _)
\* The bytes of the parts the list names, in the order of the list.
ListedBytes(list, parts) ==
    IF list = <<>> THEN <<>>
    ELSE BytesOf(parts[Head(list)[1]].ETag) \o ListedBytes(Tail(list), parts)

\* C13: when a Complete returns, the target file is as it was before the
\* call if the call failed, and holds the concatenation of the listed parts
\* if it succeeded; a failing Complete leaves no truncated or partly
\* written target.
C13_FinalizationAtomic ==
    [][\A c \in UpCallers :
          (ucalls[c].op = "complete" /\ ucalls[c].pc # "idle" /\ ucalls'[c].pc = "idle") =>
              IF ucalls'[c].res = "ok"
              THEN /\ target'.ex
                   /\ target'.bytes = ListedBytes(ucalls[c].list, sess[ucalls[c].id].Parts)
              ELSE target' = (IF ucalls[c].pc = "concat" THEN ucalls[c].pre ELSE target)]_vars

HasAttached(i) == wsG[KeepG(i)].pc # "idle"

\* The stream goroutine i has returned.
StreamEnded(i) == wsG[StreamG(i)].pc = "exit"

C23_CleanupClosesOnceAndStreamsEnd ==
    /\ [](\A i \in StreamIds : wsCancel[i] # "closed twice")
    /\ [][(wsG[ReadG].pc # "exit" /\ wsG'[ReadG].pc = "exit") =>
            \A m \in MsgIds : activeStreams[m] # None =>
                /\ wsCancel[activeStreams[m]] = "open"
                /\ wsCancel'[activeStreams[m]] = "closed"]_vars
    /\ \A i \in StreamIds :
          (wsG[ReadG].pc = "exit") ~> (wsG[StreamG(i)].pc \in {"idle", "exit"})

\* C23's case: the read loop has ended after a stream-stop; the stream that
\* was still registered had its channel closed by the cleanup and its
\* goroutine, which was running then, has terminated.
C23_Witness ==
    /\ wsG[ReadG].pc = "exit"
    /\ \E m \in MsgIds, i \in StreamIds :
          /\ activeStreams[m] = i
          /\ wsCancel[i] = "closed"
          /\ HasAttached(i) /\ StreamEnded(i)
          /\ \E j \in StreamIds : j # i /\ wsCancel[j] = "closed"

\* C36: while the connection's read loop runs, a request id has an entry in
\* the active-streams map only as long as the goroutine of the stream
\* registered under it has not returned: a stream that ended on its own
\* (process finished or not found, attach failed) has no entry left.
C36_EntryOnlyWhileStreamLive ==
    wsG[ReadG].pc \notin {"cleanup", "exit"} =>
        \A m \in MsgIds :
            activeStreams[m] # None => wsG[StreamG(activeStreams[m])].pc # "exit"

(***************************************************************************)
(* Claims about the directory watches.                                     *)
(***************************************************************************)
\* C24: the stop function of a subscription is idempotent: however often it
\* is called, the watcher and the stop channel are each closed exactly
\* once, and no call raises a fault.
C24_StopIdempotent ==
    watch.stops >= 1 =>
        /\ watch.stopChan = "closed"
        /\ watch.watcher = "closed" /\ watch.closes = 1
        /\ ~watch.fault

\* C25: in recursive mode every directory created under the root after the
\* subscription has its CREATE event delivered to the sink: once the
\* goroutine has worked off all queued events, none is missing.
C25_EveryNewDirDelivered ==
    (watch.mode = "recursive" /\ watch.watcher = "open"
         /\ watch.pc = "select" /\ wfs.events = <<>>) =>
        wfs.created \subseteq wfs.sink

\* A single-directory subscription of a client, and the root's removal.
NextWatchRoot ==
    \/ <<>> \in wfs.dirs /\ WatchDirectory
    \/ \E path \in DirPaths : Mkdir(path)
    \/ RemoveRoot
    \/ WatchEvent
    \/ WatchClosed
    \/ ClientGone

SpecWatchRoot == Init /\ [][NextWatchRoot]_vars

\* The event loop is a goroutine of its own and takes every step it can.
SpecWatchRootFair ==
    SpecWatchRoot /\ WF_vars(WatchEvent) /\ WF_vars(WatchClosed)

\* C34: in single-directory mode, once the watched root is removed or
\* renamed the event loop exits and the watcher is closed, whether or not
\* the client ever goes away, and after the loop's exit nothing more is
\* delivered to the sink.
C34_RootRemovalTearsDown ==
    /\ (watch.mode = "flat" /\ <<>> \notin wfs.dirs)
           ~> (watch.pc = "exit" /\ watch.watcher = "closed")
    /\ [][watch.pc = "exit" => wfs'.sink = wfs.sink]_vars

(***************************************************************************)
(* Claims about path resolution.                                           *)
(***************************************************************************)
\* The absolute path q is the root or lies under it.
InsideRoot(q) == Len(q.segs) >= Len(Root) /\ SubSeq(q.segs, 1, Len(Root)) = Root

\* C26: a relative input whose resolution, after ".." is resolved, is not
\* inside the root fails with the path-escape error; a relative input that
\* stays inside the root returns the joined path; an absolute input is
\* returned without the root check.
C26_RelativeEscapeRejected ==
    resolved.called =>
        IF resolved.path.abs
        THEN ~resolved.err /\ resolved.out = Clean(resolved.path)
        ELSE IF InsideRoot(Join(resolved.wd, resolved.path))
             THEN ~resolved.err /\ resolved.out = Join(resolved.wd, resolved.path)
             ELSE resolved.err

(***************************************************************************)
(* Further claims about the supervisor.                                    *)
(***************************************************************************)
\* The length of a buffer: every piece (a chunk read from the child, a
\* notice) is written whole to each buffer it goes to, so the pieces are
\* counted.
BufLen(buf) == Len(buf)

\* C27: for every record in a terminal status, the length of the combined
\* buffer is the length of the stdout buffer plus that of the stderr
\* buffer, whatever was written: child output, restart and restart-failure
\* notices, Stop and Kill notices.
C27_CombinedIsStdoutPlusStderr ==
    \A r \in RecIds :
        recs[r].Status \in Terminal =>
            BufLen(logs[r]) = BufLen(stdout[r]) + BufLen(stderr[r])

\* A re-spawn of record r has failed to start and the callback was called.
RespawnFailed(r) == wait[r].pc = "done" /\ ~RestartsStarted(r)

\* C29: when a re-spawn fails to start, the callback is called with a
\* failure record: at the callback and afterwards the record's status is
\* failed, not running, and its completion time is set.
C29_FailedRespawnCallsBackFailed ==
    \A r \in RecIds :
        RespawnFailed(r) =>
            /\ cbs[r] = <<StatusFailed>>
            /\ recs[r].Status = StatusFailed
            /\ recs[r].CompletedAt # None

\* Record r was restarted and the child of its latest restart is running.
RestartedChildRuns(r) ==
    /\ wait[r].pc = "wait" /\ wait[r].outs # <<>>
    /\ ostab[wait[r].pid].st = "run"

\* C30: after a successful restart the record's OS-process identifier is
\* the pid of the new child and stays so while that child runs, whatever
\* lookups are made, so that a Stop or Kill signals the group of the live
\* child.
C30_ProcessPidIsLiveChild ==
    \A r \in RecIds :
        RestartedChildRuns(r) => recs[r].ProcessPid = wait[r].pid

\* The OS processes that are live children of record r.
LiveChildren(r) == {p \in Pids : wait[r].pc = "wait" /\ wait[r].pid = p /\ ostab[p].st = "run"}

\* The child of r has exited and the wait goroutine has not yet written the
\* status that follows from it.
ExitUnseen(r) ==
    \/ wait[r].pc = "wait" /\ ostab[wait[r].pid].st = "zombie"
    \/ wait[r].pc \in {"readStatus", "setStatus"}

\* C31: a record with status running has exactly one live OS child, never
\* none and never two, across spawn, restart delay, re-spawn and re-spawn
\* failure (the moment between a child's exit and the status write that
\* records it is left aside).
C31_RunningHasOneLiveChild ==
    \A r \in RecIds :
        (recs[r].Status = StatusRunning /\ ~ExitUnseen(r)) =>
            Cardinality(LiveChildren(r)) = 1

\* C35: a record on which a Stop or Kill call, made while it was running,
\* has returned nil gets no new child from the restart policy afterwards.
C35_StoppedNeverRespawned ==
    [][\A r \in RecIds :
          (r <= Len(recs') /\ runs'[r] > runs[r]) => ~ctl[r].armed]_vars

\* C37: no two records with the same non-empty name have status running at
\* the same time, also when two execute requests with that name are handled
\* at once.
C37_OneRunningPerName ==
    \A r, q \in RecIds :
        (r # q /\ recs[r].Name # "" /\ recs[r].Name = recs[q].Name)
            => ~(recs[r].Status = StatusRunning /\ recs[q].Status = StatusRunning)

(***************************************************************************)
(* Further claims about the port monitor.                                  *)
(***************************************************************************)
\* C32: a new-port callback that calls back into the scanner always
\* returns: its Unregister, once begun, comes back, however the callback
\* goroutine and the ticker goroutine interleave.
C32_ReentrantCallbackReturns ==
    \A c \in NetCallers : (ncalls[c].pc = "send") ~> (ncalls[c].pc = "idle")

(***************************************************************************)
(* Further claims about the multipart uploads.                             *)
(***************************************************************************)
\* Part n of session id was uploaded at least twice without error.
UploadedTwice(id, n) == Len(okparts[id][n]) = 2

\* The bytes of the latest upload of part n that returned without error.
LastUploaded(id, n) == okparts[id][n][Len(okparts[id][n])]

\* The bytes a parts list stands for: those last uploaded for each entry.
RECURSIVE LastUploadedOf(_, _)
LastUploadedOf(id, list) ==
    IF list = <<>> THEN <<>>
    ELSE LastUploaded(id, Head(list)[1]) \o LastUploadedOf(id, Tail(list))

\* A Complete of the one client has returned nil.
CompletedOk == ucalls["u1"].pc = "idle" /\ ucalls["u1"].op = "complete" /\ ucalls["u1"].res = "ok"

\* C28: after part n was uploaded twice in sequence (B1, then B2) the
\* session holds for n the one record with the ETag and the size of B2, and
\* a Complete that succeeds with B2's ETag in its list has written B2 (not
\* B1) at the place of part n in the file.
C28_SecondUploadReplacesFirst ==
    /\ \A id \in uploads, n \in PartNos :
          (ucalls["u1"].pc = "idle" /\ UploadedTwice(id, n)) =>
              sess[id].Parts[n] = [has |-> TRUE, ETag |-> MD5(LastUploaded(id, n)),
                                   Size |-> Len(LastUploaded(id, n))]
    /\ CompletedOk =>
          /\ \A i \in 1..Len(ucalls["u1"].list) :
                ucalls["u1"].list[i][2] = MD5(LastUploaded(ucalls["u1"].id, ucalls["u1"].list[i][1]))
          /\ target.bytes = LastUploadedOf(ucalls["u1"].id, ucalls["u1"].list)

\* C28's case: part n was uploaded with "A" and then with "BB", and the
\* Complete with the ETag of "BB" has made a file that holds "BB".
C28_Witness ==
    /\ CompletedOk
    /\ \E n \in PartNos :
          /\ okparts[ucalls["u1"].id][n] = << <<"A">>, <<"B", "B">> >>
          /\ sess[ucalls["u1"].id].Parts[n].Size = 2
          /\ ucalls["u1"].list = << <<n, MD5(<<"B", "B">>)>> >>
          /\ target.bytes = <<"B", "B">>


\* One client uploads parts, every body read to its end, and completes
\* with the correct parts list; another client's AbortUpload runs beside the
\* Complete.
NextAbortComplete ==
    \/ TargetExists
    \/ \E perm \in {Perm644, Perm666} :
          Len(sess) < MaxSessions /\ InitiateUpload("u1", perm, TRUE)
    \/ \E id \in Sessions, n \in 1..MaxPartNo, d \in Data :
          ucalls["u2"].pc = "idle" /\ UploadPart("u1", id, n, d)
    \/ UploadCreate("u1")
    \/ UploadCopy("u1", TRUE)
    \/ UploadStore("u1")
    \/ UploadMarshal("u1")
    \/ UploadWriteMeta("u1")
    \/ \E id \in uploads, list \in CompleteLists(MaxPartNo) :
          CorrectList(list, sess[id].Parts) /\ CompleteUpload("u1", id, list)
    \/ CompleteValidate("u1")
    \/ CompleteOpen("u1")
    \/ CompleteCopy("u1")
    \/ CompleteCleanup("u1")
    \/ \E id \in uploads :
          /\ ucalls["u1"].pc = "idle" \/ ucalls["u1"].op = "complete"
          /\ AbortUpload("u2", id)
    \/ \E c \in UpCallers : AbortLock(c) \/ AbortUnlink(c) \/ AbortRmdir(c)

SpecAbortComplete == Init /\ [][NextAbortComplete]_vars

\* C33: a Complete with the correct parts list that runs beside an Abort of
\* the same session ends in one of the two serial outcomes: it returns nil
\* and the target holds the concatenation of all stored parts, or it fails
\* and the target is as it was before the call; and when the later of the
\* two calls has returned the session is not in the index.
C33_AbortCompleteSerial ==
    [][/\ (ucalls["u1"].op = "complete" /\ ucalls["u1"].pc # "idle"
             /\ ucalls'["u1"].pc = "idle") =>
              IF ucalls'["u1"].res = "ok"
              THEN /\ target'.ex
                   /\ target'.bytes = Concatenation(sess[ucalls["u1"].id].Parts, 1)
              ELSE target' = (IF ucalls["u1"].pc = "concat"
                              THEN ucalls["u1"].pre ELSE target)
       /\ (/\ ucalls'["u1"].pc = "idle" /\ ucalls'["u1"].op = "complete"
           /\ ucalls'["u2"].pc = "idle" /\ ucalls'["u2"].op = "abort"
           /\ ucalls'["u1"].id = ucalls'["u2"].id
           /\ ucalls' # ucalls) => ucalls'["u1"].id \notin uploads']_vars


\* Clients that only upload parts, every body read to its end.
NextUploadParts ==
    \/ \E perm \in {Perm644, Perm666} :
          Len(sess) < MaxSessions /\ InitiateUpload("u1", perm, TRUE)
    \/ \E c \in UpCallers, id \in uploads, n \in 1..MaxPartNo, d \in Data :
          UploadPart(c, id, n, d)
    \/ \E c \in UpCallers :
          \/ UploadCreate(c)
          \/ UploadCopy(c, TRUE)
          \/ UploadStore(c)
          \/ UploadMarshal(c)
          \/ UploadWriteMeta(c)

SpecUploadParts == Init /\ [][NextUploadParts]_vars

\* LoadUploads: the session read back from its metadata.json; a directory
\* without a readable file is skipped.
LoadUploads(id) == IF disk[id].meta.ex THEN disk[id].meta.parts ELSE [n \in PartNos |-> NoPart]

\* C38: when every UploadPart call on a session has returned without error,
\* calls for different part numbers that ran at the same time included,
\* metadata.json lists the parts the session holds in memory: loading it
\* gives the same part records.
C38_MetadataListsStoredParts ==
    (\A c \in UpCallers : ucalls[c].pc = "idle" /\ ucalls[c].res \in {"none", "ok"})
        => \A id \in uploads : LoadUploads(id) = sess[id].Parts


\* C39: after a Complete that returned nil the target holds the bytes of
\* every part stored in the session, each once, in ascending part-number
\* order, whatever parts list was handed in: a list that leaves a stored
\* part out or names a part twice gives no other contents.
C39_CompleteWritesEveryPartOnce ==
    CompletedOk =>
        target.bytes = Concatenation(sess[ucalls["u1"].id].Parts, 1)


\* C40: the bytes a Complete copies into the target for part N are the
\* bytes whose MD5 is the ETag it validated for N, also when an UploadPart
\* for N or another Complete of the session runs beside it.  (With the
\* one-entry lists of concurrent clients a Complete that has copied its
\* part returns nil.)
C40_CopiedBytesMatchValidatedETag ==
    [][\A c \in UpCallers :
          (/\ ucalls[c].op = "complete" /\ ucalls[c].pc = "concat"
           /\ ucalls[c].k <= Len(ucalls[c].list)
           /\ ucalls'[c].pc = "concat" /\ ucalls'[c].k = ucalls[c].k + 1)
          => MD5(disk[ucalls[c].id].parts[ucalls[c].list[ucalls[c].k][1]].bytes)
                = ucalls[c].list[ucalls[c].k][2]]_vars

====
